---- MODULE Spec2Model ----
(***************************************************************************)
(* Model of the inference core of the Nexus AI platform:                   *)
(*   - InferenceQueue (backend/services/inference/inference_queue.py)      *)
(*   - ModelCache     (backend/services/inference/model_cache.py)          *)
(*   - StreamSession  (backend/services/camera/stream_manager.py)          *)
(*                                                                         *)
(* Both objects live on one asyncio event loop.  A coroutine runs without  *)
(* interruption until it reaches an await that really suspends, so every   *)
(* action below is the code between two such suspension points.            *)
(***************************************************************************)
EXTENDS Integers, Sequences, FiniteSets, Bags, TLC

(***************************************************************************)
(* Bounds of the model                                                     *)
(***************************************************************************)
\* InferenceQueue(max_workers=..., max_queue_size=...) of the model instance
MaxWorkers == 1
MaxQueueSize == 3
\* number of admitted jobs explored
MaxJobs == 3
\* priorities a caller may pass to submit_job
Priorities == {1, 2}

\* ModelCache(max_models=..., max_memory_mb=...) of the model instance
MaxModels == 3
MaxMemory == 3
\* concurrent get_model callers, and number of cache calls explored
MaxCallers == 2
MaxCacheOps == 4
\* StreamSession: frame_queue = asyncio.Queue(maxsize=...) of the model
\* instance, the max_reconnect_attempts setting, and the frames captured
QueueCap == 2
MaxReconnectAttempts == 1
MaxFrames == 4

\* model ids, and the values _estimate_model_memory may return
Keys == {"m1", "m2", "m3"}
Sizes == {1, 2}
\* model ids whose get_model calls the model lets overlap with other cache calls
\* (calls made from several threads: the class is documented as thread-safe)
OverlapKeys == {"m1", "m2"}

\* StreamManager: the camera ids, the values of analytics_config's
\* motion_threshold (no value: the key is absent), the motion pixel counts a
\* frame difference may give, and the number of _process_frame calls explored
Cameras == {"cam1", "cam2"}
DefaultMotionThreshold == 5000
MotionThresholds == {{}, {1}}
MotionPixels == {0, 1, 2, 5000, 5001}
MaxCalls == 3
CameraDocs == [motion_detection_enabled : BOOLEAN, motion_threshold : MotionThresholds]
\* no _process_frame call made yet
NoFrame == [camera_id |-> "", enabled |-> FALSE, prev_frame |-> FALSE, motion_pixels |-> 0,
            motion_threshold |-> 0, ended |-> "none"]

\* ConnectionManager: the websockets of the clients, and the number of
\* broadcast() calls explored
WebSockets == {"w1", "w2", "w3"}
MaxBroadcasts == 2
\* no add_camera call has just returned
NoCall == <<>>
\* rate limiter: the limits of _get_rate_limit_for_path, scaled down, the
\* identifiers and paths of the requests and the span of time explored
LoginRequests == 1
InferenceRequests == 2
DefaultRequests == 2
WindowSeconds == 2
CleanupThreshold == 1
MaxTime == 4
MaxRedisFailures == 1
Identifiers == {"user:1", "ip:a"}
Paths == {"/health", "/auth/login", "/inference", "/api"}
NoCheck == <<>>
\* the user_id each websocket connects with, and the metrics loop tasks explored
UserOf == [w \in WebSockets |-> IF w = "w3" THEN "u2" ELSE "u1"]
MaxLoops == 2
LoopIds == 1..MaxLoops
\* no broadcast() call in progress
NoBroadcast == [pc |-> "idle", copy |-> {}, todo |-> {}, disconnected |-> {}, message |-> 0]

JobIds == 1..MaxJobs
Callers == 1..MaxCallers

PENDING == "pending"
PROCESSING == "processing"
COMPLETED == "completed"
FAILED == "failed"

VARIABLES
    running,        \* InferenceQueue._running
    queue,          \* InferenceQueue.queue: the heap list of (-priority, timestamp, job)
    jobs,           \* InferenceQueue.jobs: job_id -> the job's status, priority, whether
                    \* started_at and completed_at are set, whether it has a callback,
                    \* and how often the callback was invoked
    workers,        \* InferenceQueue.workers: the worker tasks in the list, as a bag
                    \* of [pc, job]: where the task stands and the job it holds
    detached,       \* worker tasks still alive that workers.clear() dropped from the list
    stats,          \* InferenceQueue.stats counters
    pool_shutdown,  \* thread_pool.shutdown() has been called
    stop_pc,        \* position of the stop() coroutine
    clock,          \* last value returned by datetime.utcnow().timestamp()
    last_submit,    \* what the step just taken returned or raised, if it was a submit_job call
    recorded,       \* whether last_submit and last_call are kept (fixed at the start)
    last_call,      \* "start_again" if the step just taken was start() on a started
                    \* scheduler, "stop_again" if it was stop() on a stopped one,
                    \* "callback_returned" or "callback_raised" if a callback ended
    models,         \* ModelCache.models: model_id -> loaded model (handle)
    configs,        \* ModelCache.configs (its key set)
    access_order,   \* ModelCache.access_order: keys, least recently used first
    load_times,     \* ModelCache.load_times (its key set)
    model_sizes,    \* ModelCache.model_sizes: model_id -> size in MB
    cache_stats,    \* ModelCache.stats counters
    caller,         \* position and result of each get_model caller
    n_ops,          \* cache calls made so far
    use_order,      \* cached keys by their latest successful get_model, oldest first
    last_victims,   \* keys the latest cache call evicted, in eviction order
    invalidated,    \* keys invalidate was called with and get_model was not called with since
    lock,           \* the caller whose thread holds ModelCache.lock, 0 if none
    is_active,      \* StreamSession.is_active
    cap,            \* StreamSession.cap: "none", an "open" capture, or one that is "unopened"
    frame_queue,    \* StreamSession.frame_queue: frames, oldest first
    frame_count,    \* StreamSession.frame_count
    dropped_frames, \* StreamSession.dropped_frames
    reconnect_attempts, \* StreamSession.reconnect_attempts
    capture_loops,  \* the _capture_loop tasks alive, a bag of [pc, cur]: where the
                    \* task stands, and whether self.capture_task refers to it
    processing_loops, \* the _processing_loop tasks alive, likewise
    stray_reads,    \* _read_frame_sync calls still running in a thread after
                    \* their capture task was cancelled, a bag of positions
    sp_pc,          \* position of the stop_processing() coroutine
    rc_pc,          \* position of the reconnect() coroutine
    taken,          \* frames the processing loops took from frame_queue
    read_failed,    \* the latest frame read of a capture loop failed
    m_running,      \* StreamManager._running
    m_sessions,     \* StreamManager._sessions: camera_id -> the session's camera document
    m_tasks,        \* StreamManager._capture_tasks: camera_id -> where the task stands
    camera_events,  \* the documents of db.camera_events, in insertion order
    n_calls,        \* _process_frame calls made so far
    last_frame,     \* the latest _process_frame call: its arguments and how it ended
    m_last,         \* the add_camera call just made and what it returned
    active_connections, \* ConnectionManager.active_connections
    is_running,     \* DashboardMetrics.is_running
    bc,             \* the broadcast() call of the metrics loop: where it stands, the
                    \* copy of active_connections it iterates over, the websockets
                    \* still to send to, its list "disconnected" and its message
    received,       \* websocket -> the latest broadcast message it received (0: none)
    failed,         \* websocket -> the broadcast message whose push to it failed (0: none)
    accepted,       \* the websockets connect() was called with so far
    n_broadcasts,   \* broadcast() calls made so far
    user_connections, \* ConnectionManager.user_connections: user_id -> websockets
    loops,          \* the _metrics_loop tasks that are alive: task -> "wait" (at its
                    \* loop test, in _collect_metrics or asleep) or "send" (inside
                    \* manager.broadcast)
    metrics_task,   \* DashboardMetrics.metrics_task: the task it refers to, 0 for None
    ms_await,       \* the task a stop_metrics_collection() call awaits, 0 if none does
    rl_now,         \* time.time() of the last request
    local_cache,    \* local_cache of the middleware built without a redis_client
    redis_store,    \* the sorted sets "ratelimit:<identifier>" of the Redis server
    fallback_cache, \* local_cache of the middleware built with a redis_client
    redis_failures, \* the requests during which Redis raised
    allowed_log,    \* identifier -> times of the requests the first middleware let
                    \* pass, as far back as one window
    rl_last,        \* the last _check_rate_limit call and what the first middleware returned
    rd_last,        \* what the middleware with a redis_client returned for that call
    rl_distinct,    \* no two checked requests so far arrived at the same time
    e_max_models,   \* max_models of the ModelCache whose loops are followed
    e_pc,           \* where its _add_to_cache call stands: "idle", "count" (first
                    \* loop), "memory" (second loop) or "add" (capacity ensured)
    e_model_id,     \* the model being added
    e_size,         \* and its size
    e_current_memory, \* the local current_memory of _ensure_cache_capacity
    e_spin          \* flipped by every pass of the first loop that evicts nothing

svars == <<running, queue, jobs, workers, detached, stats, pool_shutdown,
           stop_pc, clock, last_submit, last_call, recorded>>

cvars == <<models, configs, access_order, load_times, model_sizes,
           cache_stats, caller, n_ops, use_order, last_victims,
           invalidated, lock>>

tvars == <<is_active, cap, frame_queue, frame_count, dropped_frames,
           reconnect_attempts, capture_loops, processing_loops, stray_reads,
           sp_pc, rc_pc, taken, read_failed>>

mvars == <<m_running, m_sessions, m_tasks, camera_events, n_calls, last_frame, m_last>>

bvars == <<active_connections, is_running, bc, received, failed, accepted, n_broadcasts,
           user_connections, loops, metrics_task, ms_await>>

\* two RateLimitMiddleware instances that see the same requests
rvars == <<rl_now, local_cache, redis_store, fallback_cache, redis_failures, allowed_log,
           rl_last, rd_last, rl_distinct>>
\* one _ensure_cache_capacity call of a ModelCache with any max_models, loop
\* iteration by loop iteration
evars == <<e_max_models, e_pc, e_model_id, e_size, e_current_memory, e_spin>>
vars == <<svars, cvars, tvars, mvars, bvars, rvars, evars>>

(***************************************************************************)
(* heapq on the tuples (-priority, timestamp, job)                         *)
(***************************************************************************)
\* tuple comparison a < b: "T", "F", or "E" when it falls through to the
\* InferenceJob objects, which define no ordering (TypeError)
TupleLess(a, b) ==
    IF a.np # b.np THEN (IF a.np < b.np THEN "T" ELSE "F")
    ELSE IF a.ts # b.ts THEN (IF a.ts < b.ts THEN "T" ELSE "F")
    ELSE IF a.job = b.job THEN "F"
    ELSE "E"

Swap(h, i, j) == [h EXCEPT ![i] = h[j], ![j] = h[i]]

\* heapq siftdown: move h[pos] towards the root while it is smaller than its parent
RECURSIVE SiftDown(_, _, _)
SiftDown(h, startpos, pos) ==
    IF pos <= startpos THEN [h |-> h, err |-> FALSE]
    ELSE LET parentpos == pos \div 2
             c == TupleLess(h[pos], h[parentpos])
         IN  IF c = "E" THEN [h |-> h, err |-> TRUE]
             ELSE IF c = "F" THEN [h |-> h, err |-> FALSE]
             ELSE SiftDown(Swap(h, pos, parentpos), startpos, parentpos)

\* heapq siftup: bubble the smaller child up until a leaf, then siftdown
RECURSIVE SiftUp(_, _, _)
SiftUp(h, startpos, pos) ==
    LET n == Len(h)
        l == 2 * pos
        r == 2 * pos + 1
    IN  IF l > n THEN SiftDown(h, startpos, pos)
        ELSE LET c == IF r <= n THEN TupleLess(h[l], h[r]) ELSE "T"
                 childpos == IF c = "T" THEN l ELSE r
             IN  IF c = "E" THEN [h |-> h, err |-> TRUE]
                 ELSE SiftUp(Swap(h, pos, childpos), startpos, childpos)

\* heapq.heappush: append, then siftdown; on TypeError the item stays appended
HeapPush(h, item) == SiftDown(Append(h, item), 1, Len(h) + 1)

\* mutant of HeapPop: the root is returned and not removed
HeapPop_Peek(h) == [h |-> h, item |-> h[1], err |-> FALSE]

\* heapq.heappop: take the last element, put it at the root, siftup; on
\* TypeError the former root has already been overwritten
HeapPop(h) ==
    LET n == Len(h)
        lastelt == h[n]
        h1 == SubSeq(h, 1, n - 1)
    IN  IF n = 1 THEN [h |-> <<>>, item |-> lastelt, err |-> FALSE]
        ELSE LET r == SiftUp([h1 EXCEPT ![1] = lastelt], 1, 1)
             IN  [h |-> r.h, item |-> h[1], err |-> r.err]

(***************************************************************************)
(* InferenceQueue                                                          *)
(***************************************************************************)
\* the state after construction of the objects
InitRest ==
    /\ running = FALSE
    /\ queue = <<>>
    /\ jobs = <<>>
    /\ workers = EmptyBag
    /\ detached = EmptyBag
    /\ stats = [total_jobs |-> 0, completed_jobs |-> 0, failed_jobs |-> 0]
    /\ pool_shutdown = FALSE
    /\ stop_pc = "idle"
    /\ clock = 0
    /\ last_submit = "none"
    /\ last_call = "none"
    /\ models = [k \in {} |-> 0]
    /\ configs = {}
    /\ access_order = <<>>
    /\ load_times = {}
    /\ model_sizes = [k \in {} |-> 0]
    /\ cache_stats = [hits |-> 0, misses |-> 0, evictions |-> 0, loads |-> 0]
    /\ caller = [c \in Callers |-> [pc |-> "idle", key |-> "", handle |-> 0, missed |-> FALSE]]
    /\ n_ops = 0
    /\ use_order = <<>>
    /\ last_victims = <<>>
    /\ invalidated = {}
    /\ lock = 0
    /\ is_active = FALSE
    /\ cap = "none"
    /\ frame_queue = <<>>
    /\ frame_count = 0
    /\ dropped_frames = 0
    /\ reconnect_attempts = 0
    /\ capture_loops = EmptyBag
    /\ processing_loops = EmptyBag
    /\ stray_reads = EmptyBag
    /\ sp_pc = "idle"
    /\ rc_pc = "idle"
    /\ taken = 0
    /\ read_failed = FALSE
    /\ m_running = FALSE
    /\ m_sessions = [c \in {} |-> 0]
    /\ m_tasks = [c \in {} |-> ""]
    /\ camera_events = <<>>
    /\ n_calls = 0
    /\ m_last = NoCall
    /\ last_frame = NoFrame
    /\ active_connections = {}
    /\ is_running = FALSE
    /\ bc = NoBroadcast
    /\ received = [w \in WebSockets |-> 0]
    /\ failed = [w \in WebSockets |-> 0]
    /\ accepted = {}
    /\ n_broadcasts = 0
    /\ user_connections = [u \in {} |-> {}]
    /\ loops = <<>>
    /\ metrics_task = 0
    /\ ms_await = 0
    /\ rl_now = 0
    /\ local_cache = [i \in {} |-> {}]
    /\ redis_store = [i \in {} |-> {}]
    /\ fallback_cache = [i \in {} |-> {}]
    /\ redis_failures = 0
    /\ allowed_log = <<>>
    /\ rl_last = NoCheck
    /\ rd_last = NoCheck
    /\ rl_distinct = TRUE

\* the outcome of the calls is not recorded, or it is
\* no _add_to_cache call in progress
InitEvictIdle ==
    /\ e_pc = "idle"
    /\ e_model_id = "none"
    /\ e_size = 0
    /\ e_current_memory = 0
    /\ e_spin = FALSE

InitState == InitRest /\ InitEvictIdle /\ e_max_models = MaxModels

Init == InitState /\ recorded = FALSE

\* ModelCache(max_models, ...) for every max_models from 0 on
InitEvict == InitRest /\ InitEvictIdle /\ e_max_models \in 0..MaxModels /\ recorded = FALSE


InitCalls == InitState /\ recorded = TRUE

\* what last_submit or last_call records of an outcome v
Mark(v) == IF recorded THEN v ELSE "none"

\* a worker task waiting in queue.get(), and the states a worker task can be in
IdleTask == [pc |-> "idle", job |-> 0]
TaskStates == [pc : {"idle", "busy", "callback", "cancelled"}, job : 0..MaxJobs]

\* mutant of start: the test "if self._running: return" is left out
start_NoTest ==
    /\ BagCardinality(workers) + BagCardinality(detached) <= MaxWorkers
    /\ running' = TRUE
    /\ workers' = workers (+) [t \in {IdleTask} |-> MaxWorkers]
    /\ last_submit' = "none"
    /\ last_call' = Mark(IF running THEN "start_again" ELSE "none")
    /\ UNCHANGED recorded
    /\ UNCHANGED <<queue, jobs, detached, stats, pool_shutdown, stop_pc, clock>>
    /\ UNCHANGED <<cvars, tvars, mvars, bvars, rvars, evars>>

\* start(): a no-op when running, else create max_workers worker tasks.  A new
\* task enters its loop (while self._running) and waits in queue.get().  The
\* model explores a start() while at most one earlier pool of tasks is alive
start ==
    /\ IF running
       THEN UNCHANGED <<running, workers>>
       ELSE /\ BagCardinality(workers) + BagCardinality(detached) <= MaxWorkers
            /\ running' = TRUE
            /\ workers' = workers (+) [t \in {IdleTask} |-> MaxWorkers]
    /\ last_submit' = "none"
    /\ last_call' = Mark(IF running THEN "start_again" ELSE "none")
    /\ UNCHANGED recorded
    /\ UNCHANGED <<queue, jobs, detached, stats, pool_shutdown, stop_pc, clock>>
    /\ UNCHANGED <<cvars, tvars, mvars, bvars, rvars, evars>>

\* the loop test "while self._running" a worker reaches after each iteration:
\* the task waits in queue.get() again, or it ends
LoopTest == IF running THEN SetToBag({IdleTask}) ELSE EmptyBag

\* the worker task in state t, listed in self.workers (l) or not, takes a step
\* that leaves the tasks in next (one task or none) behind
TaskStep(l, t, next) ==
    /\ workers' = IF l THEN (workers (-) SetToBag({t})) (+) next ELSE workers
    /\ detached' = IF l THEN detached ELSE (detached (-) SetToBag({t})) (+) next

\* the states of the worker tasks that are listed in self.workers (l) or not
TasksOf(l) == BagToSet(IF l THEN workers ELSE detached)

\* _worker after the job of task t got its terminal status: "if job.callback:
\* await job.callback(job)", else task_done() and the loop test
AfterJob(l, t, j) ==
    TaskStep(l, t, IF jobs[j].callback THEN SetToBag({[pc |-> "callback", job |-> j]})
                                       ELSE LoopTest)
Invoked(j) == IF jobs[j].callback THEN 1 ELSE 0

\* what a reading of the clock can add to the previous reading (the first
\* reading has none before it)
Ticks == IF clock = 0 THEN {1} ELSE {0, 1}

\* mutant of submit_job: the job is registered before the two admission tests
submit_job_RegisterFirst(p, dt, cb) ==
    /\ Len(jobs) < MaxJobs
    /\ jobs' = Append(jobs, [status |-> PENDING, priority |-> p,
                                       started_at |-> FALSE, completed_at |-> FALSE,
                                       callback |-> cb, callbacks |-> 0])
    /\ stats' = [stats EXCEPT !.total_jobs = @ + 1]
    /\ IF ~running
       THEN /\ last_submit' = Mark("not_running")
            /\ UNCHANGED <<clock, queue>>
       ELSE IF Len(queue) >= MaxQueueSize
       THEN /\ last_submit' = Mark("queue_full")
            /\ UNCHANGED <<clock, queue>>
       ELSE LET job_id == Len(jobs) + 1
                now == clock + dt
                r == HeapPush(queue, [np |-> 0 - p, ts |-> now, job |-> job_id])
            IN  /\ clock' = now
                /\ queue' = r.h
                /\ last_submit' = Mark(IF r.err THEN "type_error" ELSE "ok")
    /\ last_call' = "none"
    /\ UNCHANGED recorded
    /\ UNCHANGED <<running, workers, detached, pool_shutdown, stop_pc>>
    /\ UNCHANGED <<cvars, tvars, mvars, bvars, rvars, evars>>

\* submit_job(priority=p, callback=cb); dt says whether the clock moved since its
\* last reading, cb whether a callback is given
submit_job(p, dt, cb) ==
    /\ (running /\ Len(queue) < MaxQueueSize) => Len(jobs) < MaxJobs
    /\ IF ~running
       THEN /\ last_submit' = Mark("not_running")
            /\ UNCHANGED <<jobs, stats, clock, queue>>
       ELSE IF Len(queue) >= MaxQueueSize
       THEN /\ last_submit' = Mark("queue_full")
            /\ UNCHANGED <<jobs, stats, clock, queue>>
       ELSE \E job_id \in {Len(jobs) + 1}, now \in {clock + dt} :
            \E r \in {HeapPush(queue, [np |-> 0 - p, ts |-> now, job |-> job_id])} :
                /\ jobs' = Append(jobs, [status |-> PENDING, priority |-> p,
                                       started_at |-> FALSE, completed_at |-> FALSE,
                                       callback |-> cb, callbacks |-> 0])
                /\ stats' = [stats EXCEPT !.total_jobs = @ + 1]
                /\ clock' = now
                /\ queue' = r.h
                /\ last_submit' = Mark(IF r.err THEN "type_error" ELSE "ok")
    /\ last_call' = "none"
    /\ UNCHANGED recorded
    /\ UNCHANGED <<running, workers, detached, pool_shutdown, stop_pc>>
    /\ UNCHANGED <<cvars, tvars, mvars, bvars, rvars, evars>>

\* mutant of worker_get: started_at is not set
worker_get_NoStart(l, t) ==
    /\ t \in TasksOf(l)
    /\ t.pc = "idle"
    /\ queue # <<>>
    /\ LET r == HeapPop(queue)
           j == r.item.job
       IN  /\ queue' = r.h
           /\ IF r.err
              THEN \* TypeError out of queue.get(): caught by the loop's handler
                   /\ TaskStep(l, t, LoopTest)
                   /\ UNCHANGED <<jobs, stats>>
              ELSE /\ IF pool_shutdown
                      THEN \* run_in_executor raises RuntimeError: job fails at once
                           /\ jobs' = [jobs EXCEPT ![j].status = FAILED,
                                                 ![j].completed_at = TRUE,
                                                 ![j].callbacks = @ + Invoked(j)]
                           /\ stats' = [stats EXCEPT !.failed_jobs = @ + 1]
                           /\ AfterJob(l, t, j)
                      ELSE /\ jobs' = [jobs EXCEPT ![j].status = PROCESSING]
                           /\ TaskStep(l, t, SetToBag({[pc |-> "busy", job |-> j]}))
                           /\ UNCHANGED stats
    /\ last_submit' = "none"
    /\ last_call' = "none"
    /\ UNCHANGED recorded
    /\ UNCHANGED <<running, pool_shutdown, stop_pc, clock>>
    /\ UNCHANGED <<cvars, tvars, mvars, bvars, rvars, evars>>

\* _worker: queue.get() returns (or raises inside heappop), the job becomes
\* PROCESSING and is handed to the thread pool
worker_get(l, t) ==
    /\ t \in TasksOf(l)
    /\ t.pc = "idle"
    /\ queue # <<>>
    /\ \E r \in {HeapPop(queue)} :
       \E j \in {r.item.job} :
           /\ queue' = r.h
           /\ IF r.err
              THEN \* TypeError out of queue.get(): caught by the loop's handler
                   /\ TaskStep(l, t, LoopTest)
                   /\ UNCHANGED <<jobs, stats>>
              ELSE /\ IF pool_shutdown
                      THEN \* run_in_executor raises RuntimeError: job fails at once
                           /\ jobs' = [jobs EXCEPT ![j].status = FAILED,
                                                 ![j].started_at = TRUE,
                                                 ![j].completed_at = TRUE,
                                                 ![j].callbacks = @ + Invoked(j)]
                           /\ stats' = [stats EXCEPT !.failed_jobs = @ + 1]
                           /\ AfterJob(l, t, j)
                      ELSE /\ jobs' = [jobs EXCEPT ![j].status = PROCESSING,
                                                 ![j].started_at = TRUE]
                           /\ TaskStep(l, t, SetToBag({[pc |-> "busy", job |-> j]}))
                           /\ UNCHANGED stats
    /\ last_submit' = "none"
    /\ last_call' = "none"
    /\ UNCHANGED recorded
    /\ UNCHANGED <<running, pool_shutdown, stop_pc, clock>>
    /\ UNCHANGED <<cvars, tvars, mvars, bvars, rvars, evars>>

\* mutant of worker_finish: the counters are not updated
worker_finish_NoCount(l, t, ok) ==
    /\ t \in TasksOf(l)
    /\ t.pc = "busy"
    /\ jobs' = [jobs EXCEPT ![t.job].status = IF ok THEN COMPLETED ELSE FAILED,
                          ![t.job].completed_at = TRUE,
                          ![t.job].callbacks = @ + Invoked(t.job)]
    /\ AfterJob(l, t, t.job)
    /\ last_submit' = "none"
    /\ last_call' = "none"
    /\ UNCHANGED recorded
    /\ UNCHANGED <<running, queue, stats, pool_shutdown, stop_pc, clock>>
    /\ UNCHANGED <<cvars, tvars, mvars, bvars, rvars, evars>>

\* _worker: the executor future resolves with a result (ok) or an exception
worker_finish(l, t, ok) ==
    /\ t \in TasksOf(l)
    /\ t.pc = "busy"
    /\ jobs' = [jobs EXCEPT ![t.job].status = IF ok THEN COMPLETED ELSE FAILED,
                          ![t.job].completed_at = TRUE,
                          ![t.job].callbacks = @ + Invoked(t.job)]
    /\ stats' = IF ok THEN [stats EXCEPT !.completed_jobs = @ + 1]
                      ELSE [stats EXCEPT !.failed_jobs = @ + 1]
    /\ AfterJob(l, t, t.job)
    /\ last_submit' = "none"
    /\ last_call' = "none"
    /\ UNCHANGED recorded
    /\ UNCHANGED <<running, queue, pool_shutdown, stop_pc, clock>>
    /\ UNCHANGED <<cvars, tvars, mvars, bvars, rvars, evars>>

\* mutant of callback_return: an error the callback raises ends the worker task
callback_return_Propagates(l, t, ok) ==
    /\ t \in TasksOf(l)
    /\ t.pc = "callback"
    /\ TaskStep(l, t, IF ok THEN LoopTest ELSE EmptyBag)
    /\ last_submit' = "none"
    /\ last_call' = Mark(IF ok THEN "callback_returned" ELSE "callback_raised")
    /\ UNCHANGED recorded
    /\ UNCHANGED <<running, queue, jobs, stats, pool_shutdown, stop_pc, clock>>
    /\ UNCHANGED <<cvars, tvars, mvars, bvars, rvars, evars>>

\* _worker: the callback returns (ok) or raises an Exception, which is caught
\* and logged; then task_done() and the loop test
callback_return(l, t, ok) ==
    /\ t \in TasksOf(l)
    /\ t.pc = "callback"
    /\ TaskStep(l, t, LoopTest)
    /\ last_submit' = "none"
    /\ last_call' = Mark(IF ok THEN "callback_returned" ELSE "callback_raised")
    /\ UNCHANGED recorded
    /\ UNCHANGED <<running, queue, jobs, stats, pool_shutdown, stop_pc, clock>>
    /\ UNCHANGED <<cvars, tvars, mvars, bvars, rvars, evars>>

\* _worker: the executor future raises an error that is not an Exception (a
\* BaseException out of the inference call): neither "except Exception" nor
\* "except asyncio.CancelledError" catches it, the task ends, nothing restarts
\* it and the job is left as it was
worker_abort(l, t) ==
    /\ t \in TasksOf(l)
    /\ t.pc = "busy"
    /\ TaskStep(l, t, EmptyBag)
    /\ last_submit' = "none"
    /\ last_call' = "none"
    /\ UNCHANGED recorded
    /\ UNCHANGED <<running, queue, jobs, stats, pool_shutdown, stop_pc, clock>>
    /\ UNCHANGED <<cvars, tvars, mvars, bvars, rvars, evars>>

\* _worker: wait_for(queue.get(), 1.0) times out and the loop test fails
worker_timeout(l, t) ==
    /\ t \in TasksOf(l)
    /\ t.pc = "idle"
    /\ ~running
    /\ TaskStep(l, t, LoopTest)
    /\ last_submit' = "none"
    /\ last_call' = "none"
    /\ UNCHANGED recorded
    /\ UNCHANGED <<running, queue, jobs, stats, pool_shutdown, stop_pc, clock>>
    /\ UNCHANGED <<cvars, tvars, mvars, bvars, rvars, evars>>

\* get_queue_stats()
get_queue_stats ==
    [total_jobs |-> stats.total_jobs,
     completed_jobs |-> stats.completed_jobs,
     failed_jobs |-> stats.failed_jobs,
     queue_size |-> Len(queue),
     active_jobs |-> Cardinality({j \in DOMAIN jobs : jobs[j].status = PROCESSING})]

\* mutant of Cancel: a task waiting in queue.get() is not reached
Cancel_SkipIdle(t) == IF t.pc \in {"busy", "callback"} THEN [t EXCEPT !.pc = "cancelled"] ELSE t

\* task.cancel() on every task of a bag: a task at an await is cancelled there
Cancel(t) == IF t.pc \in {"idle", "busy", "callback"} THEN [t EXCEPT !.pc = "cancelled"] ELSE t
CancelAll(B) ==
    [u \in {Cancel(t) : t \in DOMAIN B} |->
        BagCardinality([t \in {x \in DOMAIN B : Cancel(x) = u} |-> B[t]])]

\* mutant of stop_begin: the test "if not self._running: return" is left out
stop_begin_NoTest ==
    /\ stop_pc = "idle"
    /\ running' = FALSE
    /\ workers' = CancelAll(workers)
    /\ stop_pc' = "gather"
    /\ last_submit' = "none"
    /\ last_call' = Mark(IF running THEN "none" ELSE "stop_again")
    /\ UNCHANGED recorded
    /\ UNCHANGED <<queue, jobs, detached, stats, pool_shutdown, clock>>
    /\ UNCHANGED <<cvars, tvars, mvars, bvars, rvars, evars>>

\* stop() up to "await asyncio.gather(*self.workers)": every listed task is
\* cancelled; CancelledError reaches it at its await when the loop runs it
stop_begin ==
    /\ stop_pc = "idle"
    /\ IF ~running
       THEN UNCHANGED <<running, workers, stop_pc>>
       ELSE /\ running' = FALSE
            /\ workers' = CancelAll(workers)
            /\ stop_pc' = "gather"
    /\ last_submit' = "none"
    /\ last_call' = Mark(IF running THEN "none" ELSE "stop_again")
    /\ UNCHANGED recorded
    /\ UNCHANGED <<queue, jobs, detached, stats, pool_shutdown, clock>>
    /\ UNCHANGED <<cvars, tvars, mvars, bvars, rvars, evars>>

\* stop() after the gather: the cancelled tasks have ended in their
\* "except asyncio.CancelledError" branch, then thread_pool.shutdown(wait=True)
\* and workers.clear(), which leaves the tasks a start() added meanwhile alive
stop_finish ==
    /\ stop_pc = "gather"
    /\ detached' = detached (+) [t \in {x \in DOMAIN workers : x.pc # "cancelled"} |->
                                   workers[t]]
    /\ workers' = EmptyBag
    /\ pool_shutdown' = TRUE
    /\ stop_pc' = "idle"
    /\ last_submit' = "none"
    /\ last_call' = "none"
    /\ UNCHANGED recorded
    /\ UNCHANGED <<running, queue, jobs, stats, clock>>
    /\ UNCHANGED <<cvars, tvars, mvars, bvars, rvars, evars>>

(***************************************************************************)
(* ModelCache                                                              *)
(***************************************************************************)
\* the five cache tables and the eviction counter, as one value
Tables == [models |-> models, configs |-> configs, access_order |-> access_order,
           load_times |-> load_times, model_sizes |-> model_sizes,
           evictions |-> cache_stats.evictions, victims |-> <<>>]

\* dict.pop(key, None)
Pop(f, k) == [x \in (DOMAIN f) \ {k} |-> f[x]]

\* OrderedDict.pop(key, None) and OrderedDict.move_to_end(key)
Without(seq, k) == SelectSeq(seq, LAMBDA x : x # k)
MoveToEnd(seq, k) == Append(Without(seq, k), k)

\* sum(self.model_sizes.values())
RECURSIVE SumSizes(_)
SumSizes(f) ==
    IF DOMAIN f = {} THEN 0
    ELSE LET k == CHOOSE x \in DOMAIN f : TRUE
         IN  f[k] + SumSizes(Pop(f, k))

\* mutant of EvictLru: the size of the evicted model stays in model_sizes
EvictLru_KeepsSize(t) ==
    IF t.access_order = <<>> THEN t
    ELSE LET lru_model_id == Head(t.access_order)
         IN  [models |-> Pop(t.models, lru_model_id),
              configs |-> t.configs \ {lru_model_id},
              access_order |-> Tail(t.access_order),
              load_times |-> t.load_times \ {lru_model_id},
              model_sizes |-> t.model_sizes,
              evictions |-> t.evictions + 1,
              victims |-> Append(t.victims, lru_model_id)]

\* _evict_lru_model
EvictLru(t) ==
    IF t.access_order = <<>> THEN t
    ELSE LET lru_model_id == Head(t.access_order)
         IN  [models |-> Pop(t.models, lru_model_id),
              configs |-> t.configs \ {lru_model_id},
              access_order |-> Tail(t.access_order),
              load_times |-> t.load_times \ {lru_model_id},
              model_sizes |-> Pop(t.model_sizes, lru_model_id),
              evictions |-> t.evictions + 1,
              victims |-> Append(t.victims, lru_model_id)]

\* _ensure_cache_capacity, first loop: while len(self.models) >= self.max_models
RECURSIVE EvictByCount(_)
EvictByCount(t) ==
    IF Cardinality(DOMAIN t.models) >= MaxModels /\ t.access_order # <<>>
    THEN EvictByCount(EvictLru(t))
    ELSE t

\* mutant of EvictByMemory: the memory limit is not enforced
EvictByMemory_Ignored(t, current_memory, new_model_size) == t

\* _ensure_cache_capacity, second loop: while current_memory + new > max_memory_mb
RECURSIVE EvictByMemory(_, _, _)
EvictByMemory(t, current_memory, new_model_size) ==
    IF current_memory + new_model_size > MaxMemory /\ DOMAIN t.models # {}
    THEN LET t2 == EvictLru(t)
         IN  EvictByMemory(t2, SumSizes(t2.model_sizes), new_model_size)
    ELSE t

\* _ensure_cache_capacity: current_memory is summed before the first loop
EnsureCacheCapacity(t, new_model_size) ==
    EvictByMemory(EvictByCount(t), SumSizes(t.model_sizes), new_model_size)

\* get_stats: the number of cached models, the byte total and the model list
GetStats ==
    [cached_models |-> Cardinality(DOMAIN models),
     total_memory_mb |-> SumSizes(model_sizes),
     model_list |-> DOMAIN models]

\* the position of a key assigned into an OrderedDict: kept if present, else last
Assign(seq, k) == IF \E i \in DOMAIN seq : seq[i] = k THEN seq ELSE Append(seq, k)

\* _add_to_cache
AddToCache(t, model_id, model, model_size) ==
    LET t2 == EnsureCacheCapacity(t, model_size)
    IN  [models |-> [x \in DOMAIN t2.models \cup {model_id} |->
                        IF x = model_id THEN model ELSE t2.models[x]],
         configs |-> t2.configs \cup {model_id},
         access_order |-> Assign(t2.access_order, model_id),
         load_times |-> t2.load_times \cup {model_id},
         model_sizes |-> [x \in DOMAIN t2.model_sizes \cup {model_id} |->
                        IF x = model_id THEN model_size ELSE t2.model_sizes[x]],
         evictions |-> t2.evictions,
         victims |-> t2.victims]

\* get_model from line 88 on, once nothing suspends any more: _load_model
\* returns (loads += 1) or raises, then _add_to_cache.  missed is 1 when the
\* lookup of lines 73-85 is part of the same step
LoadAndAdd(c, model_id, ok, model_size, missed) ==
    IF ~ok
    THEN /\ cache_stats' = [cache_stats EXCEPT !.misses = @ + missed]
         /\ caller' = [caller EXCEPT ![c] = [pc |-> "idle", key |-> model_id,
                                             handle |-> 0, missed |-> TRUE]]
         /\ last_victims' = <<>>
         /\ UNCHANGED <<models, configs, access_order, load_times, model_sizes,
                        use_order>>
    ELSE \E model \in {cache_stats.loads + 1} :
         \E t \in {AddToCache(Tables, model_id, model, model_size)} :
             /\ cache_stats' = [cache_stats EXCEPT !.misses = @ + missed,
                                                   !.loads = @ + 1,
                                                   !.evictions = t.evictions]
             /\ models' = t.models
             /\ configs' = t.configs
             /\ access_order' = t.access_order
             /\ load_times' = t.load_times
             /\ model_sizes' = t.model_sizes
             /\ last_victims' = t.victims
             /\ use_order' = Append(SelectSeq(use_order,
                                       LAMBDA x : x \in DOMAIN t.models /\ x # model_id),
                                    model_id)
             /\ caller' = [caller EXCEPT ![c] = [pc |-> "idle", key |-> model_id,
                                                 handle |-> model, missed |-> TRUE]]

\* get_model on a cached key
get_model_hit(c, model_id) ==
    /\ n_ops < MaxCacheOps
    /\ lock \in {0, c}
    /\ lock' = 0
    /\ caller[c].pc = "idle"
    /\ model_id \in DOMAIN models
    /\ access_order' = MoveToEnd(access_order, model_id)
    /\ use_order' = MoveToEnd(use_order, model_id)
    /\ cache_stats' = [cache_stats EXCEPT !.hits = @ + 1]
    /\ caller' = [caller EXCEPT ![c] = [pc |-> "idle", key |-> model_id,
                                        handle |-> models[model_id], missed |-> FALSE]]
    /\ n_ops' = n_ops + 1
    /\ last_victims' = <<>>
    /\ invalidated' = invalidated \ {model_id}
    /\ UNCHANGED <<models, configs, load_times, model_sizes>>
    /\ UNCHANGED <<svars, tvars, mvars, bvars, rvars, evars>>

\* get_model on a missing key, run to its end with no other cache call in between
get_model_local(c, model_id, ok, model_size) ==
    /\ n_ops < MaxCacheOps
    /\ lock \in {0, c}
    /\ lock' = 0
    /\ caller[c].pc = "idle"
    /\ model_id \notin DOMAIN models
    /\ model_id \notin OverlapKeys
    /\ LoadAndAdd(c, model_id, ok, model_size, 1)
    /\ n_ops' = n_ops + 1
    /\ invalidated' = invalidated \ {model_id}
    /\ UNCHANGED <<svars, tvars, mvars, bvars, rvars, evars>>

\* mutant of get_model_miss: the lock is kept while the model is loaded
get_model_miss_HoldLock(c, model_id) ==
    /\ n_ops < MaxCacheOps
    /\ lock \in {0, c}
    /\ caller[c].pc = "idle"
    /\ model_id \notin DOMAIN models
    /\ model_id \in OverlapKeys
    /\ cache_stats' = [cache_stats EXCEPT !.misses = @ + 1]
    /\ caller' = [caller EXCEPT ![c] = [pc |-> "load", key |-> model_id,
                                        handle |-> 0, missed |-> TRUE]]
    /\ n_ops' = n_ops + 1
    /\ last_victims' = <<>>
    /\ invalidated' = invalidated \ {model_id}
    /\ lock' = c
    /\ UNCHANGED <<models, configs, access_order, load_times, model_sizes, use_order>>
    /\ UNCHANGED <<svars, tvars, mvars, bvars, rvars, evars>>

\* get_model on a missing key, up to the end of its "with self.lock" block: the
\* miss is counted and the lock released; the caller's thread then loads the
\* model while other threads call the cache
get_model_miss(c, model_id) ==
    /\ n_ops < MaxCacheOps
    /\ lock \in {0, c}
    /\ caller[c].pc = "idle"
    /\ model_id \notin DOMAIN models
    /\ model_id \in OverlapKeys
    /\ cache_stats' = [cache_stats EXCEPT !.misses = @ + 1]
    /\ caller' = [caller EXCEPT ![c] = [pc |-> "load", key |-> model_id,
                                        handle |-> 0, missed |-> TRUE]]
    /\ n_ops' = n_ops + 1
    /\ last_victims' = <<>>
    /\ invalidated' = invalidated \ {model_id}
    /\ lock' = 0
    /\ UNCHANGED <<models, configs, access_order, load_times, model_sizes, use_order>>
    /\ UNCHANGED <<svars, tvars, mvars, bvars, rvars, evars>>

\* _load_model returns or raises; then _add_to_cache, under the lock
load_done(c, ok, model_size) ==
    /\ caller[c].pc = "load"
    /\ lock \in {0, c}
    /\ lock' = 0
    /\ LoadAndAdd(c, caller[c].key, ok, model_size, 0)
    /\ UNCHANGED <<n_ops, invalidated>>
    /\ UNCHANGED <<svars, tvars, mvars, bvars, rvars, evars>>

\* invalidate(model_id)
invalidate(model_id) ==
    /\ n_ops < MaxCacheOps
    /\ lock = 0
    /\ lock' = 0
    /\ IF model_id \in DOMAIN models
       THEN /\ models' = Pop(models, model_id)
            /\ configs' = configs \ {model_id}
            /\ access_order' = Without(access_order, model_id)
            /\ load_times' = load_times \ {model_id}
            /\ model_sizes' = Pop(model_sizes, model_id)
            /\ use_order' = Without(use_order, model_id)
       ELSE UNCHANGED <<models, configs, access_order, load_times, model_sizes,
                        use_order>>
    /\ n_ops' = n_ops + 1
    /\ last_victims' = <<>>
    /\ invalidated' = invalidated \cup {model_id}
    /\ UNCHANGED <<cache_stats, caller>>
    /\ UNCHANGED <<svars, tvars, mvars, bvars, rvars, evars>>

\* clear()
clear ==
    /\ n_ops < MaxCacheOps
    /\ lock = 0
    /\ lock' = 0
    /\ models' = [k \in {} |-> 0]
    /\ configs' = {}
    /\ access_order' = <<>>
    /\ load_times' = {}
    /\ model_sizes' = [k \in {} |-> 0]
    /\ use_order' = <<>>
    /\ n_ops' = n_ops + 1
    /\ last_victims' = <<>>
    /\ UNCHANGED <<cache_stats, caller, invalidated>>
    /\ UNCHANGED <<svars, tvars, mvars, bvars, rvars, evars>>

\* the tables t written back to the cache
SetTables(t) ==
    /\ models' = t.models
    /\ configs' = t.configs
    /\ access_order' = t.access_order
    /\ load_times' = t.load_times
    /\ model_sizes' = t.model_sizes
    /\ cache_stats' = [cache_stats EXCEPT !.evictions = t.evictions]
    /\ last_victims' = t.victims
    /\ use_order' = SelectSeq(use_order, LAMBDA x : x \in DOMAIN t.models)

\* get_model on a key that is not cached, from _add_to_cache up to the first
\* loop test of _ensure_cache_capacity: the lock is taken and current_memory
\* summed
ensure_begin(model_id, model_size) ==
    /\ e_pc = "idle"
    /\ lock = 0
    /\ cache_stats.evictions < MaxCacheOps
    /\ model_id \notin DOMAIN models
    /\ lock' = 1
    /\ e_model_id' = model_id
    /\ e_size' = model_size
    /\ e_current_memory' = SumSizes(model_sizes)
    /\ last_victims' = <<>>
    /\ e_pc' = "count"
    /\ UNCHANGED <<models, configs, access_order, load_times, model_sizes, cache_stats,
                   caller, n_ops, use_order, invalidated, e_max_models, e_spin>>
    /\ UNCHANGED <<svars, tvars, mvars, bvars, rvars>>

\* one test of "while len(self.models) >= self.max_models" and the
\* _evict_lru_model call of its body, which returns at once when access_order
\* is empty
ensure_count ==
    /\ e_pc = "count"
    /\ IF Cardinality(DOMAIN models) >= e_max_models
       THEN /\ SetTables(EvictLru([Tables EXCEPT !.victims = last_victims]))
            /\ e_spin' = IF access_order = <<>> THEN ~e_spin ELSE e_spin
            /\ UNCHANGED e_pc
       ELSE /\ e_pc' = "memory"
            /\ UNCHANGED <<models, configs, access_order, load_times, model_sizes,
                           cache_stats, last_victims, use_order, e_spin>>
    /\ UNCHANGED <<caller, n_ops, invalidated, lock>>
    /\ UNCHANGED <<e_max_models, e_model_id, e_size, e_current_memory>>
    /\ UNCHANGED <<svars, tvars, mvars, bvars, rvars>>

\* one test of "while (current_memory + new_model_size) > self.max_memory_mb"
\* and its body: break when nothing is cached, else _evict_lru_model and
\* current_memory summed again
ensure_memory ==
    /\ e_pc = "memory"
    /\ IF e_current_memory + e_size > MaxMemory /\ DOMAIN models # {}
       THEN /\ SetTables(EvictLru([Tables EXCEPT !.victims = last_victims]))
            /\ e_current_memory' = SumSizes(model_sizes')
            /\ UNCHANGED e_pc
       ELSE /\ e_pc' = "add"
            /\ UNCHANGED <<models, configs, access_order, load_times, model_sizes,
                           cache_stats, last_victims, use_order, e_current_memory>>
    /\ UNCHANGED <<caller, n_ops, invalidated, lock>>
    /\ UNCHANGED <<e_max_models, e_model_id, e_size, e_spin>>
    /\ UNCHANGED <<svars, tvars, mvars, bvars, rvars>>

\* _add_to_cache after _ensure_cache_capacity returned: the five assignments,
\* and the lock is released
ensure_add ==
    /\ e_pc = "add"
    /\ models' = [x \in DOMAIN models \cup {e_model_id} |->
                     IF x = e_model_id THEN cache_stats.loads + 1 ELSE models[x]]
    /\ configs' = configs \cup {e_model_id}
    /\ access_order' = Assign(access_order, e_model_id)
    /\ load_times' = load_times \cup {e_model_id}
    /\ model_sizes' = [x \in DOMAIN model_sizes \cup {e_model_id} |->
                          IF x = e_model_id THEN e_size ELSE model_sizes[x]]
    /\ use_order' = Append(SelectSeq(use_order, LAMBDA x : x # e_model_id), e_model_id)
    /\ lock' = 0
    /\ e_pc' = "idle"
    /\ UNCHANGED <<cache_stats, last_victims, caller, n_ops, invalidated>>
    /\ UNCHANGED <<e_max_models, e_model_id, e_size, e_current_memory, e_spin>>
    /\ UNCHANGED <<svars, tvars, mvars, bvars, rvars>>

\* get_model on a cached key while no _add_to_cache call holds the lock: the
\* key becomes the most recently used one
ensure_hit(model_id) ==
    /\ e_pc = "idle"
    /\ lock = 0
    /\ cache_stats.hits < MaxCacheOps
    /\ model_id \in DOMAIN models
    /\ access_order' = MoveToEnd(access_order, model_id)
    /\ use_order' = MoveToEnd(use_order, model_id)
    /\ cache_stats' = [cache_stats EXCEPT !.hits = @ + 1]
    /\ UNCHANGED <<models, configs, load_times, model_sizes, last_victims, caller, n_ops,
                   invalidated, lock>>
    /\ UNCHANGED evars
    /\ UNCHANGED <<svars, tvars, mvars, bvars, rvars>>

(***************************************************************************)
(* StreamSession                                                           *)
(***************************************************************************)
\* the states a loop task can be in: "wait" before its loop test (just created,
\* or in asyncio.sleep), at its await, or cancelled there
CaptureStates == [pc : {"wait", "thread_start", "thread_read", "cancelled"}, cur : BOOLEAN]
ProcessingStates == [pc : {"wait", "get", "cancelled"}, cur : BOOLEAN]
ReadStates == {"thread_start", "thread_read"}

\* a bag of loop tasks after the task B holds in state t went on to leave the
\* tasks in next (one task or none) behind
Moved(B, t, next) == (B (-) SetToBag({t})) (+) next

\* the loop test "while self.is_active" of a task in state t: it goes on to
\* its await (pc) or it ends
LoopNext(t, pc) == IF is_active THEN SetToBag({[t EXCEPT !.pc = pc]}) ELSE EmptyBag

\* self.capture_task / self.processing_task is assigned a new task: no task
\* of B is the referenced one any more
Retire(B) ==
    LET F(t) == [t EXCEPT !.cur = FALSE]
    IN  [u \in {F(t) : t \in DOMAIN B} |->
            BagCardinality([t \in {x \in DOMAIN B : F(x) = u} |-> B[t]])]

\* the task self.capture_task / self.processing_task refers to, if it has not
\* ended and is not cancelled yet
CurAlive(B) == {t \in BagToSet(B) : t.cur /\ t.pc # "cancelled"}

\* task.cancel() on that task
CancelCur(B) ==
    LET t == CHOOSE x \in CurAlive(B) : TRUE
    IN  Moved(B, t, SetToBag({[t EXCEPT !.pc = "cancelled"]}))

\* the cancelled tasks have ended
Reap(B) == [t \in {x \in DOMAIN B : x.pc # "cancelled"} |-> B[t]]

\* connect(): a new VideoCapture that opened (ok) or did not
Connect(ok) ==
    IF ok
    THEN /\ cap' = "open"
         /\ is_active' = TRUE
         /\ reconnect_attempts' = 0
    ELSE /\ cap' = "unopened"
         /\ is_active' = FALSE
         /\ UNCHANGED reconnect_attempts

\* disconnect(): release the capture, if any
Disconnect ==
    /\ cap' = "none"
    /\ is_active' = FALSE

\* StreamSession.connect(), as StreamManager.add_camera calls it
connect(ok) ==
    /\ Connect(ok)
    /\ UNCHANGED <<frame_queue, frame_count, dropped_frames, capture_loops,
                   processing_loops, stray_reads, sp_pc, rc_pc, taken, read_failed>>
    /\ UNCHANGED <<svars, cvars, mvars, bvars, rvars, evars>>

\* StreamSession.disconnect(), as StreamManager.stop and remove_camera call it
disconnect ==
    /\ Disconnect
    /\ UNCHANGED <<frame_queue, frame_count, dropped_frames, reconnect_attempts,
                   capture_loops, processing_loops, stray_reads, sp_pc, rc_pc,
                   taken, read_failed>>
    /\ UNCHANGED <<svars, cvars, mvars, bvars, rvars, evars>>

\* start_processing(): a no-op when active, else connect and create the two
\* loop tasks.  The model explores a call while at most one earlier capture
\* loop or reader thread and one earlier processing loop are alive
start_processing(ok) ==
    /\ BagCardinality(capture_loops) + BagCardinality(stray_reads) <= 1
    /\ BagCardinality(processing_loops) <= 1
    /\ IF is_active
       THEN UNCHANGED <<is_active, cap, reconnect_attempts, capture_loops,
                        processing_loops>>
       ELSE /\ Connect(ok)
            /\ IF ok
               THEN /\ capture_loops' = Retire(capture_loops)
                           (+) SetToBag({[pc |-> "wait", cur |-> TRUE]})
                    /\ processing_loops' = Retire(processing_loops)
                           (+) SetToBag({[pc |-> "wait", cur |-> TRUE]})
               ELSE UNCHANGED <<capture_loops, processing_loops>>
    /\ UNCHANGED <<frame_queue, frame_count, dropped_frames, stray_reads, sp_pc,
                   rc_pc, taken, read_failed>>
    /\ UNCHANGED <<svars, cvars, mvars, bvars, rvars, evars>>

\* _capture_loop: the task is created, or its sleep ends; loop test, then
\* asyncio.to_thread(self._read_frame_sync)
capture_wake(t) ==
    /\ t \in BagToSet(capture_loops)
    /\ t.pc = "wait"
    /\ capture_loops' = Moved(capture_loops, t, LoopNext(t, "thread_start"))
    /\ UNCHANGED <<is_active, cap, frame_queue, frame_count, dropped_frames,
                   reconnect_attempts, processing_loops, stray_reads, sp_pc,
                   rc_pc, taken, read_failed>>
    /\ UNCHANGED <<svars, cvars, mvars, bvars, rvars, evars>>

\* _read_frame_sync in the thread: without an opened capture it returns None
\* and the loop sleeps 0.1 s; else it enters cap.read()
capture_begin(t) ==
    /\ t \in BagToSet(capture_loops)
    /\ t.pc = "thread_start"
    /\ IF cap = "open"
       THEN /\ capture_loops' = Moved(capture_loops, t,
                                      SetToBag({[t EXCEPT !.pc = "thread_read"]}))
            /\ UNCHANGED read_failed
       ELSE /\ capture_loops' = Moved(capture_loops, t,
                                      SetToBag({[t EXCEPT !.pc = "wait"]}))
            /\ read_failed' = TRUE
    /\ UNCHANGED <<is_active, cap, frame_queue, frame_count, dropped_frames,
                   reconnect_attempts, processing_loops, stray_reads, sp_pc,
                   rc_pc, taken>>
    /\ UNCHANGED <<svars, cvars, mvars, bvars, rvars, evars>>

\* mutant of PutFrame: on QueueFull the new frame is the one dropped
PutFrame_DropNewest(q, f) ==
    IF Len(q) >= QueueCap
    THEN [q |-> q, dropped |-> 1]
    ELSE [q |-> Append(q, f), dropped |-> 0]

\* put_nowait of frame f, and on QueueFull get_nowait of the oldest frame,
\* put_nowait again and dropped_frames += 1
PutFrame(q, f) ==
    IF Len(q) >= QueueCap
    THEN [q |-> Append(Tail(q), f), dropped |-> 1]
    ELSE [q |-> Append(q, f), dropped |-> 0]

\* _capture_loop: cap.read() returns a frame (ok) or fails; a frame is counted
\* and queued and the loop goes on, a failure makes the loop sleep 0.1 s
capture_read(t, ok) ==
    /\ t \in BagToSet(capture_loops)
    /\ t.pc = "thread_read"
    /\ ok => frame_count < MaxFrames
    /\ IF ok
       THEN LET r == PutFrame(frame_queue, frame_count + 1)
            IN  /\ frame_count' = frame_count + 1
                /\ frame_queue' = r.q
                /\ dropped_frames' = dropped_frames + r.dropped
                /\ read_failed' = FALSE
                /\ capture_loops' = Moved(capture_loops, t, LoopNext(t, "thread_start"))
       ELSE /\ read_failed' = TRUE
            /\ capture_loops' = Moved(capture_loops, t,
                                      SetToBag({[t EXCEPT !.pc = "wait"]}))
            /\ UNCHANGED <<frame_count, frame_queue, dropped_frames>>
    /\ UNCHANGED <<is_active, cap, reconnect_attempts, processing_loops,
                   stray_reads, sp_pc, rc_pc, taken>>
    /\ UNCHANGED <<svars, cvars, mvars, bvars, rvars, evars>>

\* _processing_loop: the task is created, or its sleep ends; loop test, then
\* wait_for(self.frame_queue.get(), 1.0)
processing_wake(t) ==
    /\ t \in BagToSet(processing_loops)
    /\ t.pc = "wait"
    /\ processing_loops' = Moved(processing_loops, t, LoopNext(t, "get"))
    /\ UNCHANGED <<is_active, cap, frame_queue, frame_count, dropped_frames,
                   reconnect_attempts, capture_loops, stray_reads, sp_pc, rc_pc,
                   taken, read_failed>>
    /\ UNCHANGED <<svars, cvars, mvars, bvars, rvars, evars>>

\* mutant of processing_get: the oldest frame is processed but stays queued
processing_get_Peek(t) ==
    /\ t \in BagToSet(processing_loops)
    /\ t.pc = "get"
    /\ frame_queue # <<>>
    /\ taken' = taken + 1
    /\ processing_loops' = Moved(processing_loops, t,
                                 SetToBag({[t EXCEPT !.pc = "wait"]}))
    /\ UNCHANGED <<is_active, cap, frame_queue, frame_count, dropped_frames,
                   reconnect_attempts, capture_loops, stray_reads, sp_pc, rc_pc,
                   read_failed>>
    /\ UNCHANGED <<svars, cvars, mvars, bvars, rvars, evars>>

\* _processing_loop: frame_queue.get() returns the oldest frame;
\* self._process_frame does not exist on StreamSession, so the AttributeError
\* is logged and the loop sleeps 0.1 s
processing_get(t) ==
    /\ t \in BagToSet(processing_loops)
    /\ t.pc = "get"
    /\ frame_queue # <<>>
    /\ frame_queue' = Tail(frame_queue)
    /\ taken' = taken + 1
    /\ processing_loops' = Moved(processing_loops, t,
                                 SetToBag({[t EXCEPT !.pc = "wait"]}))
    /\ UNCHANGED <<is_active, cap, frame_count, dropped_frames,
                   reconnect_attempts, capture_loops, stray_reads, sp_pc, rc_pc,
                   read_failed>>
    /\ UNCHANGED <<svars, cvars, mvars, bvars, rvars, evars>>

\* _processing_loop: the wait for a frame times out and the loop test fails
processing_timeout(t) ==
    /\ t \in BagToSet(processing_loops)
    /\ t.pc = "get"
    /\ frame_queue = <<>>
    /\ ~is_active
    /\ processing_loops' = Moved(processing_loops, t, EmptyBag)
    /\ UNCHANGED <<is_active, cap, frame_queue, frame_count, dropped_frames,
                   reconnect_attempts, capture_loops, stray_reads, sp_pc, rc_pc,
                   taken, read_failed>>
    /\ UNCHANGED <<svars, cvars, mvars, bvars, rvars, evars>>

\* _read_frame_sync of a cancelled capture task goes on in its thread: it
\* enters cap.read() if the capture is open, and it returns
stray_read(r) ==
    /\ r \in BagToSet(stray_reads)
    /\ stray_reads' = Moved(stray_reads, r,
                            IF r = "thread_start" /\ cap = "open"
                            THEN SetToBag({"thread_read"}) ELSE EmptyBag)
    /\ UNCHANGED <<is_active, cap, frame_queue, frame_count, dropped_frames,
                   reconnect_attempts, capture_loops, processing_loops, sp_pc,
                   rc_pc, taken, read_failed>>
    /\ UNCHANGED <<svars, cvars, mvars, bvars, rvars, evars>>

\* the thread of the capture task that is about to be cancelled keeps running
StrayOfCur ==
    LET t == CHOOSE x \in CurAlive(capture_loops) : TRUE
    IN  IF t.pc \in ReadStates THEN SetToBag({t.pc}) ELSE EmptyBag

\* stop_processing() up to its first await that suspends: is_active = False,
\* cancel the capture task and await it, else cancel the processing task and
\* await it, else disconnect()
sp_begin ==
    /\ sp_pc = "idle"
    /\ IF CurAlive(capture_loops) # {}
       THEN /\ capture_loops' = CancelCur(capture_loops)
            /\ stray_reads' = stray_reads (+) StrayOfCur
            /\ sp_pc' = "await_capture"
            /\ is_active' = FALSE
            /\ UNCHANGED <<cap, processing_loops>>
       ELSE IF CurAlive(processing_loops) # {}
       THEN /\ processing_loops' = CancelCur(processing_loops)
            /\ sp_pc' = "await_processing"
            /\ is_active' = FALSE
            /\ UNCHANGED <<cap, capture_loops, stray_reads>>
       ELSE /\ Disconnect
            /\ UNCHANGED <<capture_loops, processing_loops, stray_reads, sp_pc>>
    /\ UNCHANGED <<frame_queue, frame_count, dropped_frames, reconnect_attempts,
                   rc_pc, taken, read_failed>>
    /\ UNCHANGED <<svars, cvars, mvars, bvars, rvars, evars>>

\* stop_processing() after "await self.capture_task": the cancelled task has
\* ended; cancel the processing task and await it, else disconnect()
sp_mid ==
    /\ sp_pc = "await_capture"
    /\ capture_loops' = Reap(capture_loops)
    /\ IF CurAlive(processing_loops) # {}
       THEN /\ processing_loops' = CancelCur(processing_loops)
            /\ sp_pc' = "await_processing"
            /\ UNCHANGED <<cap, is_active>>
       ELSE /\ Disconnect
            /\ sp_pc' = "idle"
            /\ UNCHANGED processing_loops
    /\ UNCHANGED <<frame_queue, frame_count, dropped_frames, reconnect_attempts,
                   stray_reads, rc_pc, taken, read_failed>>
    /\ UNCHANGED <<svars, cvars, mvars, bvars, rvars, evars>>

\* stop_processing() after "await self.processing_task": disconnect()
sp_end ==
    /\ sp_pc = "await_processing"
    /\ processing_loops' = Reap(processing_loops)
    /\ Disconnect
    /\ sp_pc' = "idle"
    /\ UNCHANGED <<frame_queue, frame_count, dropped_frames, reconnect_attempts,
                   capture_loops, stray_reads, rc_pc, taken, read_failed>>
    /\ UNCHANGED <<svars, cvars, mvars, bvars, rvars, evars>>

\* reconnect() up to asyncio.sleep(reconnect_delay): give up after
\* max_reconnect_attempts, else count the attempt and disconnect()
rc_begin ==
    /\ rc_pc = "idle"
    /\ Disconnect
    /\ IF reconnect_attempts >= MaxReconnectAttempts
       THEN UNCHANGED <<reconnect_attempts, rc_pc>>
       ELSE /\ reconnect_attempts' = reconnect_attempts + 1
            /\ rc_pc' = "sleep"
    /\ UNCHANGED <<frame_queue, frame_count, dropped_frames, capture_loops,
                   processing_loops, stray_reads, sp_pc, taken, read_failed>>
    /\ UNCHANGED <<svars, cvars, mvars, bvars, rvars, evars>>

\* reconnect() after the sleep: connect()
rc_end(ok) ==
    /\ rc_pc = "sleep"
    /\ Connect(ok)
    /\ rc_pc' = "idle"
    /\ UNCHANGED <<frame_queue, frame_count, dropped_frames, capture_loops,
                   processing_loops, stray_reads, sp_pc, taken, read_failed>>
    /\ UNCHANGED <<svars, cvars, mvars, bvars, rvars, evars>>

(***************************************************************************)
(* StreamManager                                                           *)
(***************************************************************************)
\* StreamManager.start()
manager_start ==
    /\ m_running' = TRUE
    /\ UNCHANGED <<m_sessions, m_tasks, camera_events, n_calls, last_frame>>
    /\ m_last' = NoCall
    /\ UNCHANGED <<svars, cvars, tvars, bvars, rvars, evars>>

\* mutant of add_camera: a camera id already in _sessions is not refused
add_camera_Overwrites(cam, camera, ok) ==
    /\ IF ~ok
       THEN UNCHANGED <<m_sessions, m_tasks>>
       ELSE /\ m_sessions' = [c \in DOMAIN m_sessions \cup {cam} |->
                                 IF c = cam THEN camera ELSE m_sessions[c]]
            /\ m_tasks' = [c \in DOMAIN m_tasks \cup {cam} |->
                              IF c = cam THEN "created" ELSE m_tasks[c]]
    /\ m_last' = [op |-> "add_camera", cam |-> cam, returned |-> ok]
    /\ UNCHANGED <<m_running, camera_events, n_calls, last_frame>>
    /\ UNCHANGED <<svars, cvars, tvars, bvars, rvars, evars>>

\* add_camera(camera): refused for a camera id already in _sessions and when
\* session.connect() fails; else the session is registered and its
\* _capture_loop task created.  session.connect() has no await in it, so the
\* call runs in one piece.
add_camera(cam, camera, ok) ==
    /\ IF cam \in DOMAIN m_sessions \/ ~ok
       THEN UNCHANGED <<m_sessions, m_tasks>>
       ELSE /\ m_sessions' = [c \in DOMAIN m_sessions \cup {cam} |->
                                 IF c = cam THEN camera ELSE m_sessions[c]]
            /\ m_tasks' = [c \in DOMAIN m_tasks \cup {cam} |->
                              IF c = cam THEN "created" ELSE m_tasks[c]]
    /\ m_last' = [op |-> "add_camera", cam |-> cam,
                  returned |-> ~(cam \in DOMAIN m_sessions \/ ~ok)]
    /\ UNCHANGED <<m_running, camera_events, n_calls, last_frame>>
    /\ UNCHANGED <<svars, cvars, tvars, bvars, rvars, evars>>

\* remove_camera(camera_id): the capture task is cancelled and forgotten, the
\* session disconnected and forgotten
remove_camera(cam) ==
    /\ m_tasks' = [c \in DOMAIN m_tasks \ {cam} |-> m_tasks[c]]
    /\ m_sessions' = [c \in DOMAIN m_sessions \ {cam} |-> m_sessions[c]]
    /\ UNCHANGED <<m_running, camera_events, n_calls, last_frame>>
    /\ m_last' = NoCall
    /\ UNCHANGED <<svars, cvars, tvars, bvars, rvars, evars>>

\* StreamManager.stop(): every capture task cancelled, every session
\* disconnected, both dictionaries cleared
manager_stop ==
    /\ m_running' = FALSE
    /\ m_sessions' = [c \in {} |-> 0]
    /\ m_tasks' = [c \in {} |-> ""]
    /\ UNCHANGED <<camera_events, n_calls, last_frame>>
    /\ m_last' = NoCall
    /\ UNCHANGED <<svars, cvars, tvars, bvars, rvars, evars>>

\* StreamManager._capture_loop(camera_id), from the creation of the task to its
\* end: with the manager not running the loop is not entered and the task
\* returns; else the first statement of the loop, session.read_frame(), raises
\* AttributeError (StreamSession defines no read_frame), which the handler
\* "except Exception" logs, and the task ends.  _process_frame is not reached.
manager_capture_loop(cam) ==
    /\ cam \in DOMAIN m_tasks
    /\ m_tasks[cam] = "created"
    /\ m_tasks' = [m_tasks EXCEPT ![cam] =
                      IF m_running /\ cam \in DOMAIN m_sessions THEN "error" ELSE "returned"]
    /\ UNCHANGED <<m_running, m_sessions, camera_events, n_calls, last_frame>>
    /\ m_last' = NoCall
    /\ UNCHANGED <<svars, cvars, tvars, bvars, rvars, evars>>

\* camera.get("analytics_config", {}).get("motion_threshold", 5000)
MotionThreshold(camera) ==
    IF camera.motion_threshold = {} THEN DefaultMotionThreshold
    ELSE CHOOSE x \in camera.motion_threshold : TRUE

\* "db = await get_database()": get_database is a plain function that raises
\* RuntimeError while the database is not connected and returns the
\* AsyncIOMotorDatabase otherwise, which is not awaitable: the await raises
\* TypeError.  Either way the statement raises.
AwaitGetDatabase(connected) == IF connected THEN "TypeError" ELSE "RuntimeError"

\* StreamManager._process_frame(camera_id, frame, prev_frame), called with
\* drawn arguments for a camera of the manager: n is the motion pixel count of
\* frame against prev_frame, prev is "prev_frame is not None".  It returns at
\* once when motion detection is disabled, does nothing without a previous
\* frame or with n <= motion_threshold, and else enters the try block that is
\* to build and insert the event: its first statement raises (AwaitGetDatabase),
\* "except Exception" logs the error, and insert_one is not reached.
process_frame(cam, n, prev, connected) ==
    /\ cam \in DOMAIN m_sessions
    /\ n_calls < MaxCalls
    /\ n_calls' = n_calls + 1
    /\ LET camera == m_sessions[cam]
           ended == IF ~camera.motion_detection_enabled THEN "disabled"
                    ELSE IF ~prev THEN "no_prev_frame"
                    ELSE IF n > MotionThreshold(camera) THEN AwaitGetDatabase(connected)
                    ELSE "no_motion"
       IN  last_frame' = [camera_id |-> cam,
                          enabled |-> camera.motion_detection_enabled,
                          prev_frame |-> prev,
                          motion_pixels |-> n,
                          motion_threshold |-> MotionThreshold(camera),
                          ended |-> ended]
    /\ UNCHANGED <<m_running, m_sessions, m_tasks, camera_events>>
    /\ m_last' = NoCall
    /\ UNCHANGED <<svars, cvars, tvars, bvars, rvars, evars>>

(***************************************************************************)
(* ConnectionManager and DashboardMetrics                                  *)
(***************************************************************************)
\* the tasks of _metrics_loop that are alive
AliveLoops == DOMAIN loops
NewLoop == CHOOSE t \in LoopIds \ AliveLoops : \A u \in LoopIds \ AliveLoops : t <= u

\* ConnectionManager.disconnect(websocket, user_id) on the table uc
DropUser(uc, w) ==
    LET u == UserOf[w]
    IN  IF u \notin DOMAIN uc THEN uc
        ELSE IF uc[u] \ {w} = {} THEN [x \in DOMAIN uc \ {u} |-> uc[x]]
        ELSE [uc EXCEPT ![u] = @ \ {w}]

\* websocket_endpoint, after websocket.accept() returned: manager.connect adds
\* the (new) websocket to active_connections and to the set of its user, and
\* start_metrics_collection() creates a _metrics_loop task unless is_running
ws_connect(w) ==
    /\ w \notin accepted
    /\ accepted' = accepted \cup {w}
    /\ active_connections' = active_connections \cup {w}
    /\ user_connections' =
          [u \in DOMAIN user_connections \cup {UserOf[w]} |->
              IF u = UserOf[w]
              THEN (IF u \in DOMAIN user_connections THEN user_connections[u] ELSE {}) \cup {w}
              ELSE user_connections[u]]
    /\ IF is_running
       THEN UNCHANGED <<is_running, loops, metrics_task>>
       ELSE /\ LoopIds \ AliveLoops # {}
            /\ is_running' = TRUE
            /\ loops' = [t \in AliveLoops \cup {NewLoop} |->
                            IF t = NewLoop THEN "wait" ELSE loops[t]]
            /\ metrics_task' = NewLoop
    /\ UNCHANGED <<bc, received, failed, n_broadcasts, ms_await>>
    /\ UNCHANGED <<svars, cvars, tvars, mvars, rvars, evars>>

\* ConnectionManager.disconnect(websocket, user_id), called by
\* websocket_endpoint when its websocket is closed or fails
ws_disconnect(w) ==
    /\ w \in accepted
    /\ active_connections' = active_connections \ {w}
    /\ user_connections' = DropUser(user_connections, w)
    /\ UNCHANGED <<is_running, bc, received, failed, accepted, n_broadcasts,
                   loops, metrics_task, ms_await>>
    /\ UNCHANGED <<svars, cvars, tvars, mvars, rvars, evars>>

\* DashboardMetrics._metrics_loop, task t from its loop test to the first send:
\* the task ends when is_running is false; else _collect_metrics() raises
\* (get_database() without a connection: the loop logs and sleeps) or returns
\* the metrics, and manager.broadcast(message) copies active_connections and
\* starts to iterate over the copy.  The model explores one broadcast() call
\* at a time.
metrics_loop(t, ok) ==
    /\ t \in AliveLoops
    /\ loops[t] = "wait"
    /\ IF ~is_running
       THEN /\ loops' = [u \in AliveLoops \ {t} |-> loops[u]]
            /\ UNCHANGED <<bc, n_broadcasts>>
       ELSE /\ bc.pc = "idle"
            /\ n_broadcasts < MaxBroadcasts
            /\ IF ok
               THEN /\ n_broadcasts' = n_broadcasts + 1
                    /\ bc' = [pc |-> "sending", copy |-> active_connections,
                              todo |-> active_connections, disconnected |-> {},
                              message |-> n_broadcasts + 1]
                    /\ loops' = [loops EXCEPT ![t] = "send"]
               ELSE UNCHANGED <<bc, n_broadcasts, loops>>
    /\ UNCHANGED <<active_connections, is_running, received, failed, accepted,
                   user_connections, metrics_task, ms_await>>
    /\ UNCHANGED <<svars, cvars, tvars, mvars, rvars, evars>>

\* mutant of broadcast_send: a failing send_text ends the iteration
broadcast_send_StopAtFailure(w, ok) ==
    /\ bc.pc = "sending"
    /\ w \in bc.todo
    /\ IF ok
       THEN /\ received' = [received EXCEPT ![w] = bc.message]
            /\ bc' = [bc EXCEPT !.todo = @ \ {w}]
            /\ UNCHANGED failed
       ELSE /\ failed' = [failed EXCEPT ![w] = bc.message]
            /\ bc' = [bc EXCEPT !.todo = {}, !.disconnected = @ \cup {w}]
            /\ UNCHANGED received
    /\ UNCHANGED <<active_connections, is_running, accepted, n_broadcasts,
                   user_connections, loops, metrics_task, ms_await>>
    /\ UNCHANGED <<svars, cvars, tvars, mvars, rvars, evars>>

\* broadcast(), one pass of its loop: "await websocket.send_text(...)" for a
\* websocket of the copy either delivers the message or raises, and then the
\* bare "except:" appends the websocket to the list "disconnected"; the
\* iteration goes on with the other websockets
broadcast_send(w, ok) ==
    /\ bc.pc = "sending"
    /\ w \in bc.todo
    /\ IF ok
       THEN /\ received' = [received EXCEPT ![w] = bc.message]
            /\ bc' = [bc EXCEPT !.todo = @ \ {w}]
            /\ UNCHANGED failed
       ELSE /\ failed' = [failed EXCEPT ![w] = bc.message]
            /\ bc' = [bc EXCEPT !.todo = @ \ {w}, !.disconnected = @ \cup {w}]
            /\ UNCHANGED received
    /\ UNCHANGED <<active_connections, is_running, accepted, n_broadcasts,
                   user_connections, loops, metrics_task, ms_await>>
    /\ UNCHANGED <<svars, cvars, tvars, mvars, rvars, evars>>

\* the task that is inside manager.broadcast
Sender == CHOOSE t \in AliveLoops : loops[t] = "send"

\* broadcast(), after its loop: the websockets of "disconnected" are discarded
\* from active_connections (user_connections is not touched), and the metrics
\* loop sleeps
broadcast_end ==
    /\ bc.pc = "sending"
    /\ bc.todo = {}
    /\ active_connections' = active_connections \ bc.disconnected
    /\ bc' = [bc EXCEPT !.pc = "idle"]
    /\ loops' = [loops EXCEPT ![Sender] = "wait"]
    /\ UNCHANGED <<is_running, received, failed, accepted, n_broadcasts,
                   user_connections, metrics_task, ms_await>>
    /\ UNCHANGED <<svars, cvars, tvars, mvars, rvars, evars>>

\* stop_metrics_collection() up to "await self.metrics_task": is_running is
\* cleared and the task cancelled.  A task at its loop test, in
\* _collect_metrics or asleep ends with CancelledError, which "except
\* Exception" does not catch.  A task suspended in send_text of broadcast()
\* gets the CancelledError there, where the bare "except:" catches it: the
\* websocket w it was sending to is appended to "disconnected" and the task
\* goes on.
stop_metrics_begin(w) ==
    /\ ms_await = 0
    /\ is_running' = FALSE
    /\ ms_await' = metrics_task
    /\ IF metrics_task \notin AliveLoops
       THEN UNCHANGED <<loops, bc, failed, active_connections>>
       ELSE IF loops[metrics_task] = "wait"
       THEN /\ loops' = [u \in AliveLoops \ {metrics_task} |-> loops[u]]
            /\ UNCHANGED <<bc, failed, active_connections>>
       ELSE IF bc.todo = {}
       THEN \* past the sends: the clean-up runs and the sleep is cancelled
            /\ active_connections' = active_connections \ bc.disconnected
            /\ bc' = [bc EXCEPT !.pc = "idle"]
            /\ loops' = [u \in AliveLoops \ {metrics_task} |-> loops[u]]
            /\ UNCHANGED failed
       ELSE /\ w \in bc.todo
            /\ failed' = [failed EXCEPT ![w] = bc.message]
            /\ bc' = [bc EXCEPT !.todo = @ \ {w}, !.disconnected = @ \cup {w}]
            /\ UNCHANGED <<loops, active_connections>>
    /\ UNCHANGED <<received, accepted, n_broadcasts, user_connections, metrics_task>>
    /\ UNCHANGED <<svars, cvars, tvars, mvars, rvars, evars>>

\* stop_metrics_collection() returns: the task it awaits has ended
stop_metrics_end ==
    /\ ms_await # 0
    /\ ms_await \notin AliveLoops
    /\ ms_await' = 0
    /\ UNCHANGED <<active_connections, is_running, bc, received, failed, accepted,
                   n_broadcasts, user_connections, loops, metrics_task>>
    /\ UNCHANGED <<svars, cvars, tvars, mvars, rvars, evars>>

(***************************************************************************)
(* RateLimitMiddleware                                                     *)
(***************************************************************************)
SetMin(S) == CHOOSE x \in S : \A y \in S : x <= y
SeqMin(q) == SetMin({q[i] : i \in 1..Len(q)})
Max0(x) == IF x > 0 THEN x ELSE 0

\* _get_rate_limit_for_path
RateLimitForPath(path) ==
    IF path = "/auth/login" THEN [requests |-> LoginRequests, window |-> WindowSeconds]
    ELSE IF path = "/inference" THEN [requests |-> InferenceRequests, window |-> WindowSeconds]
    ELSE [requests |-> DefaultRequests, window |-> WindowSeconds]

\* the recorded requests that are still in the window
InWindow(requests, current_time, window_seconds) ==
    SelectSeq(requests, LAMBDA req_time : current_time - req_time < window_seconds)

\* _cleanup_local_cache
CleanupLocalCache(cache, current_time, window_seconds) ==
    LET pruned == [i \in DOMAIN cache |->
                      [cache[i] EXCEPT !.requests = InWindow(@, current_time, window_seconds)]]
    IN  [i \in {k \in DOMAIN pruned : pruned[k].requests # <<>>} |-> pruned[i]]

\* mutant of CheckLocal: the request is recorded also when it is rejected
CheckLocal_RecordsRejected(cache, identifier, max_requests, window_seconds, current_time) ==
    LET c0 == IF identifier \in DOMAIN cache THEN cache
              ELSE [i \in DOMAIN cache \cup {identifier} |->
                      IF i = identifier THEN [requests |-> <<>>, window |-> window_seconds]
                      ELSE cache[i]]
        pruned == InWindow(c0[identifier].requests, current_time, window_seconds)
        c1 == [c0 EXCEPT ![identifier].requests = Append(pruned, current_time)]
    IN  IF Len(pruned) >= max_requests
        THEN [cache |-> c1, allowed |-> FALSE,
              retry_after |-> Max0((SeqMin(pruned) + window_seconds) - current_time)]
        ELSE [cache |-> c1, allowed |-> TRUE, retry_after |-> 0]

\* _check_local_rate_limit on the table "cache": the new table and the result
CheckLocal(cache, identifier, max_requests, window_seconds, current_time) ==
    LET c0 == IF identifier \in DOMAIN cache THEN cache
              ELSE [i \in DOMAIN cache \cup {identifier} |->
                      IF i = identifier THEN [requests |-> <<>>, window |-> window_seconds]
                      ELSE cache[i]]
        pruned == InWindow(c0[identifier].requests, current_time, window_seconds)
        c1 == [c0 EXCEPT ![identifier].requests = pruned]
        c2 == [c0 EXCEPT ![identifier].requests = Append(pruned, current_time)]
    IN  IF Len(pruned) >= max_requests
        THEN [cache |-> c1, allowed |-> FALSE,
              retry_after |-> Max0((SeqMin(pruned) + window_seconds) - current_time)]
        ELSE [cache |-> IF Cardinality(DOMAIN c2) > CleanupThreshold
                        THEN CleanupLocalCache(c2, current_time, window_seconds)
                        ELSE c2,
              allowed |-> TRUE, retry_after |-> 0]

\* _check_redis_rate_limit when Redis answers: the pipeline (zremrangebyscore
\* up to current_time - window_seconds, zcard, zadd of the member
\* str(current_time), expire) and, for a rejected request, the zrange that
\* reads the oldest score.  A key past its expiry is gone.
CheckRedis(store, identifier, max_requests, window_seconds, current_time) ==
    LET live == IF identifier \in DOMAIN store /\ current_time < store[identifier].expire_at
                THEN store[identifier].zset ELSE {}
        kept == {score \in live : score > current_time - window_seconds}
        request_count == Cardinality(kept)
        added == kept \cup {current_time}
        s1 == [i \in DOMAIN store \cup {identifier} |->
                 IF i = identifier
                 THEN [zset |-> added, expire_at |-> current_time + window_seconds]
                 ELSE store[i]]
    IN  IF request_count >= max_requests
        THEN [store |-> s1, allowed |-> FALSE,
              retry_after |-> Max0((SetMin(added) + window_seconds) - current_time)]
        ELSE [store |-> s1, allowed |-> TRUE, retry_after |-> 0]

\* _check_rate_limit of the middleware without a redis_client, for a request
\* at time current_time
LocalCheck(identifier, path, current_time) ==
    LET limit == RateLimitForPath(path)
        l == CheckLocal(local_cache, identifier, limit.requests, limit.window, current_time)
    IN  /\ local_cache' = l.cache
        /\ allowed_log' =
              [i \in DOMAIN allowed_log \cup {identifier} |->
                  LET recent == IF i \in DOMAIN allowed_log
                                THEN SelectSeq(allowed_log[i],
                                               LAMBDA t : current_time - t <= limit.window)
                                ELSE <<>>
                  IN  IF i = identifier /\ l.allowed THEN Append(recent, current_time)
                      ELSE recent]
        /\ rl_last' = [identifier |-> identifier, time |-> current_time,
                       max_requests |-> limit.requests, window |-> limit.window,
                       allowed |-> l.allowed, retry_after |-> l.retry_after]

\* _check_rate_limit of the middleware with a redis_client; when Redis raises,
\* _check_redis_rate_limit falls back to the local_cache of this middleware
RedisCheck(identifier, path, current_time, redis_ok) ==
    LET limit == RateLimitForPath(path)
        r == CheckRedis(redis_store, identifier, limit.requests, limit.window, current_time)
        f == CheckLocal(fallback_cache, identifier, limit.requests, limit.window, current_time)
    IN  IF redis_ok
        THEN /\ redis_store' = r.store
             /\ rd_last' = [redis_ok |-> TRUE, allowed |-> r.allowed,
                            retry_after |-> r.retry_after]
             /\ UNCHANGED <<fallback_cache, redis_failures>>
        ELSE /\ redis_failures < MaxRedisFailures
             /\ redis_failures' = redis_failures + 1
             /\ fallback_cache' = f.cache
             /\ rd_last' = [redis_ok |-> FALSE, allowed |-> f.allowed,
                            retry_after |-> f.retry_after]
             /\ UNCHANGED redis_store

\* RateLimitMiddleware.dispatch, built without a redis_client, of one request
\* that arrives dt after the last one
dispatch(identifier, path, dt) ==
    /\ rl_now + dt <= MaxTime
    /\ rl_now' = rl_now + dt
    /\ rl_distinct' = (rl_distinct /\ (path = "/health" \/ dt > 0 \/ DOMAIN local_cache = {}))
    /\ IF path = "/health"
       THEN rl_last' = NoCheck /\ UNCHANGED <<local_cache, allowed_log>>
       ELSE LocalCheck(identifier, path, rl_now')
    /\ UNCHANGED <<redis_store, fallback_cache, redis_failures, rd_last>>
    /\ UNCHANGED <<svars, cvars, tvars, mvars, bvars, evars>>

\* the same request dispatched by two middlewares, one built without and one
\* built with a redis_client
dispatch_both(identifier, path, dt, redis_ok) ==
    /\ rl_now + dt <= MaxTime
    /\ rl_now' = rl_now + dt
    /\ rl_distinct' = (rl_distinct /\ (path = "/health" \/ dt > 0 \/ DOMAIN local_cache = {}))
    /\ IF path = "/health"
       THEN /\ redis_ok
            /\ rl_last' = NoCheck
            /\ rd_last' = NoCheck
            /\ UNCHANGED <<local_cache, allowed_log, redis_store, fallback_cache,
                           redis_failures>>
       ELSE /\ LocalCheck(identifier, path, rl_now')
            /\ RedisCheck(identifier, path, rl_now', redis_ok)
    /\ UNCHANGED <<svars, cvars, tvars, mvars, bvars, evars>>

Next ==
    \/ start
    \/ \E p \in Priorities, dt \in Ticks : submit_job(p, dt, FALSE)
    \/ \E l \in BOOLEAN : \E t \in TasksOf(l) : worker_get(l, t)
    \/ \E l \in BOOLEAN, ok \in BOOLEAN : \E t \in TasksOf(l) : worker_finish(l, t, ok)
    \/ \E l \in BOOLEAN : \E t \in TasksOf(l) : worker_timeout(l, t)
    \/ \E l \in BOOLEAN : \E t \in TasksOf(l) : worker_abort(l, t)
    \/ stop_begin
    \/ stop_finish

Spec == Init /\ [][Next]_vars

\* the scheduler with the outcome of each call recorded, its workers neither
\* timing out in queue.get() nor dying
NextCalls ==
    \/ start
    \/ \E p \in Priorities, dt \in Ticks : submit_job(p, dt, FALSE)
    \/ \E l \in BOOLEAN : \E t \in TasksOf(l) : worker_get(l, t)
    \/ \E l \in BOOLEAN, ok \in BOOLEAN : \E t \in TasksOf(l) : worker_finish(l, t, ok)
    \/ stop_begin
    \/ stop_finish

SpecCalls == InitCalls /\ [][NextCalls]_vars

\* the started scheduler when jobs are submitted with completion callbacks (no
\* caller in the repository passes one, so Next submits without)
NextCallback ==
    \/ start
    \/ \E p \in Priorities, dt \in Ticks, cb \in BOOLEAN : submit_job(p, dt, cb)
    \/ \E l \in BOOLEAN : \E t \in TasksOf(l) : worker_get(l, t)
    \/ \E l \in BOOLEAN, ok \in BOOLEAN : \E t \in TasksOf(l) : worker_finish(l, t, ok)
    \/ \E l \in BOOLEAN, ok \in BOOLEAN : \E t \in TasksOf(l) : callback_return(l, t, ok)

SpecCallback == InitCalls /\ [][NextCallback]_vars

NextCache ==
    \/ \E c \in Callers, k \in Keys : get_model_hit(c, k)
    \/ \E c \in Callers, k \in Keys, ok \in BOOLEAN, sz \in Sizes :
          get_model_local(c, k, ok, sz)
    \/ \E c \in Callers, k \in Keys : get_model_miss(c, k)
    \/ \E c \in Callers, ok \in BOOLEAN, sz \in Sizes : load_done(c, ok, sz)
    \/ \E k \in Keys : invalidate(k)
    \/ clear

SpecCache == Init /\ [][NextCache]_vars

NextStream ==
    \/ \E ok \in BOOLEAN : connect(ok)
    \/ disconnect
    \/ \E ok \in BOOLEAN : start_processing(ok)
    \/ \E t \in BagToSet(capture_loops) : capture_wake(t)
    \/ \E t \in BagToSet(capture_loops) : capture_begin(t)
    \/ \E t \in BagToSet(capture_loops), ok \in BOOLEAN : capture_read(t, ok)
    \/ \E t \in BagToSet(processing_loops) : processing_wake(t)
    \/ \E t \in BagToSet(processing_loops) : processing_get(t)
    \/ \E t \in BagToSet(processing_loops) : processing_timeout(t)
    \/ \E r \in BagToSet(stray_reads) : stray_read(r)
    \/ sp_begin
    \/ sp_mid
    \/ sp_end
    \/ rc_begin
    \/ \E ok \in BOOLEAN : rc_end(ok)

SpecStream == Init /\ [][NextStream]_vars

\* the stream manager, and _process_frame called on its cameras
NextManager ==
    \/ manager_start
    \/ \E cam \in Cameras, camera \in CameraDocs, ok \in BOOLEAN : add_camera(cam, camera, ok)
    \/ \E cam \in Cameras : remove_camera(cam)
    \/ manager_stop
    \/ \E cam \in Cameras : manager_capture_loop(cam)
    \/ \E cam \in Cameras, n \in MotionPixels, prev \in BOOLEAN, connected \in BOOLEAN :
          process_frame(cam, n, prev, connected)

SpecManager == Init /\ [][NextManager]_vars

\* the StreamManager as the program runs it: _process_frame is not reached
NextCameras ==
    \/ manager_start
    \/ \E cam \in Cameras, camera \in CameraDocs, ok \in BOOLEAN : add_camera(cam, camera, ok)
    \/ \E cam \in Cameras : remove_camera(cam)
    \/ manager_stop
    \/ \E cam \in Cameras : manager_capture_loop(cam)

SpecCameras == Init /\ [][NextCameras]_vars

NextBroadcast ==
    \/ \E w \in WebSockets : ws_connect(w)
    \/ \E w \in WebSockets : ws_disconnect(w)
    \/ \E t \in LoopIds, ok \in BOOLEAN : metrics_loop(t, ok)
    \/ \E w \in WebSockets, ok \in BOOLEAN : broadcast_send(w, ok)
    \/ broadcast_end

SpecBroadcast == Init /\ [][NextBroadcast]_vars

\* the same with calls of stop_metrics_collection, which nothing in the
\* repository calls
NextMetrics ==
    \/ \E w \in WebSockets : ws_connect(w)
    \/ \E w \in WebSockets : ws_disconnect(w)
    \/ \E t \in LoopIds, ok \in BOOLEAN : metrics_loop(t, ok)
    \/ \E w \in WebSockets, ok \in BOOLEAN : broadcast_send(w, ok)
    \/ broadcast_end
    \/ \E w \in WebSockets : stop_metrics_begin(w)
    \/ stop_metrics_end

SpecMetrics == Init /\ [][NextMetrics]_vars

NextRate ==
    \E identifier \in Identifiers, path \in Paths, dt \in 0..WindowSeconds :
        dispatch(identifier, path, dt)

SpecRate == Init /\ [][NextRate]_vars

NextRateBoth ==
    \E identifier \in Identifiers, path \in Paths, dt \in 0..WindowSeconds, redis_ok \in BOOLEAN :
        dispatch_both(identifier, path, dt, redis_ok)

SpecRateBoth == Init /\ [][NextRateBoth]_vars

\* _add_to_cache calls, with models above the memory limit among them, on a
\* ModelCache with any max_models
NextEvict ==
    \/ \E model_id \in Keys, model_size \in 1..(MaxMemory + 1) :
          ensure_begin(model_id, model_size)
    \/ ensure_count
    \/ ensure_memory
    \/ ensure_add
    \/ \E model_id \in Keys : ensure_hit(model_id)

SpecEvict == InitEvict /\ [][NextEvict]_vars

\* the thread that runs _ensure_cache_capacity keeps running
FairSpecEvict ==
    SpecEvict /\ WF_vars(ensure_count) /\ WF_vars(ensure_memory) /\ WF_vars(ensure_add)

\* the loop tasks, the reader threads and the suspended stop_processing() and
\* reconnect() coroutines go on whenever they can
FairSpecStream ==
    /\ SpecStream
    /\ \A t \in CaptureStates :
          /\ WF_vars(capture_wake(t))
          /\ WF_vars(capture_begin(t))
          /\ WF_vars(\E ok \in BOOLEAN : capture_read(t, ok))
    /\ \A t \in ProcessingStates :
          /\ WF_vars(processing_wake(t))
          /\ WF_vars(processing_get(t))
          /\ WF_vars(processing_timeout(t))
    /\ \A r \in ReadStates : WF_vars(stray_read(r))
    /\ WF_vars(sp_mid)
    /\ WF_vars(sp_end)
    /\ WF_vars(\E ok \in BOOLEAN : rc_end(ok))

\* worker tasks and the stop() coroutine are scheduled by the event loop
\* whenever they can continue, and the executor terminates
FairSpec ==
    /\ Spec
    /\ \A l \in BOOLEAN, t \in TaskStates :
          /\ WF_vars(worker_get(l, t))
          /\ WF_vars(\E ok \in BOOLEAN : worker_finish(l, t, ok))
          /\ WF_vars(worker_timeout(l, t))
    /\ WF_vars(stop_finish)

(***************************************************************************)
(* Properties                                                              *)
(***************************************************************************)
Last(seq) == seq[Len(seq)]
StatusOf(j) == jobs[j].status
Terminal(j) == StatusOf(j) \in {COMPLETED, FAILED}
\* the jobs a step takes out of PENDING, that is, the jobs it dispatches
Dispatched == {j \in DOMAIN jobs : jobs[j].status = PENDING /\ jobs'[j].status # PENDING}
InQueueAfter(j) == \E i \in DOMAIN queue' : queue'[i].job = j
\* a step of submit_job
SubmitStep == last_submit' # "none"

\* C1: with the scheduler started and no worker dequeuing, a submit_job call
\* succeeds while fewer than max_queue_size jobs are queued and fails with the
\* queue-full error from then on: of n > max_queue_size calls exactly the first
\* max_queue_size succeed
C1_FirstMaxSucceed ==
    [][(SubmitStep /\ running /\ Len(queue) = Len(jobs)) =>
          last_submit' = IF Len(queue) < MaxQueueSize THEN "ok"
                                                          ELSE "queue_full"]_vars

\* C2: a worker never dequeues a job while a job of strictly higher priority
\* is still waiting to be dispatched
C2_PriorityDispatch ==
    [][\A j \in Dispatched : \A k \in DOMAIN jobs' :
          jobs'[k].status = PENDING => jobs'[k].priority <= jobs'[j].priority]_vars

\* C3: of two admitted jobs of the same priority the one admitted first is
\* dispatched first, and the submission of the second succeeds and enqueues it
\* as the submission of the first did
C3_FifoSamePriority ==
    [][/\ \A k \in (DOMAIN jobs') \ (DOMAIN jobs) :
             (\E j \in DOMAIN jobs : jobs[j].priority = jobs'[k].priority) =>
                 (last_submit' = "ok" /\ InQueueAfter(k))
       /\ \A k \in Dispatched : \A j \in DOMAIN jobs' :
             (j < k /\ jobs'[j].priority = jobs'[k].priority) =>
                 jobs'[j].status # PENDING]_vars

\* C4: at most max_workers jobs of the registry are PROCESSING
C4_ProcessingAtMostMaxWorkers ==
    Cardinality({j \in DOMAIN jobs : StatusOf(j) = PROCESSING}) <= MaxWorkers

\* C8: every admitted job eventually is COMPLETED or FAILED
C8_EventuallyTerminal ==
    \A j \in JobIds : (j \in DOMAIN jobs) ~> (j \in DOMAIN jobs /\ Terminal(j))

\* C9: when stop() returns, no job of the registry is PENDING or PROCESSING
C9_StopLeavesNoLiveJob ==
    [][(stop_pc = "gather" /\ stop_pc' = "idle") =>
          \A j \in DOMAIN jobs' : jobs'[j].status \in {COMPLETED, FAILED}]_vars

\* C10: submit_job on a scheduler that is not running fails with the
\* not-running error, and a submit_job rejected as not-running or queue-full
\* leaves the registry, the queue and total_jobs as they were
C10_RejectionChangesNothing ==
    [][SubmitStep =>
          /\ (~running => last_submit' = "not_running")
          /\ (last_submit' \in {"not_running", "queue_full"} =>
                 /\ jobs' = jobs
                 /\ queue' = queue
                 /\ stats'.total_jobs = stats.total_jobs)]_vars

\* C10 witness: a stopped scheduler that still holds a full queue has rejected
\* a call
C10_Witness ==
    /\ last_submit = "not_running"
    /\ Len(queue) = MaxQueueSize
    /\ Len(jobs) = MaxQueueSize

\* C5: K >= 2 overlapping get_model calls for one key that was absent, and
\* nothing else: one load, one handle for all, loads = 1, misses = K, hits = 0
C5_SingleFlight ==
    \A k \in Keys :
        LET cs == {c \in Callers : /\ caller[c].pc = "idle"
                                   /\ caller[c].key = k
                                   /\ caller[c].missed
                                   /\ caller[c].handle # 0}
        IN  (Cardinality(cs) >= 2 /\ n_ops = Cardinality(cs)) =>
                /\ cache_stats.loads = 1
                /\ cache_stats.misses = Cardinality(cs)
                /\ cache_stats.hits = 0
                /\ \A c, d \in cs : caller[c].handle = caller[d].handle

\* C6: the cache holds at most max_models models, and their sizes sum to at
\* most max_memory_mb plus the size of one entry
C6_CacheWithinLimits ==
    /\ Cardinality(DOMAIN models) <= MaxModels
    /\ \/ DOMAIN model_sizes = {}
       \/ \E k \in DOMAIN model_sizes :
             SumSizes(model_sizes) - model_sizes[k] <= MaxMemory

\* C6 witness: the cache evicted for memory and is filled up to max_memory_mb
C6_Witness ==
    /\ cache_stats.evictions > 0
    /\ Cardinality(DOMAIN models) >= 2
    /\ SumSizes(model_sizes) = MaxMemory

\* C7: the keys a cache call evicts are the least recently used ones, by the
\* latest successful get_model of each cached key, and a hit makes its key the
\* most recently used
C7_EvictsLeastRecentlyUsed ==
    [][/\ last_victims' # <<>> =>
             last_victims' = SubSeq(use_order, 1, Len(last_victims'))
       /\ cache_stats'.hits > cache_stats.hits =>
             Last(access_order') = Last(use_order')]_vars

\* C11: a frame captured while frame_queue is full removes the oldest queued
\* frame, adds one to dropped_frames and is queued itself (a frame captured
\* while there is room is queued and nothing is dropped), so the queue always
\* holds the newest frames in capture order
C11_DropOldest ==
    [][frame_count' # frame_count =>
          IF Len(frame_queue) = QueueCap
          THEN /\ frame_queue' = Append(Tail(frame_queue), frame_count')
               /\ dropped_frames' = dropped_frames + 1
          ELSE /\ frame_queue' = Append(frame_queue, frame_count')
               /\ dropped_frames' = dropped_frames]_vars

\* C11 witness: four frames were captured into a queue of two while no frame
\* was taken; frames 3 and 4 are queued and two frames were dropped
C11_Witness ==
    /\ frame_count = 4
    /\ taken = 0
    /\ frame_queue = <<3, 4>>
    /\ dropped_frames = 2

\* C12: frames captured = frames dropped + frames taken by the processing
\* loop + frames in frame_queue, and the queue never exceeds its capacity
C12_FrameAccounting ==
    /\ frame_count = dropped_frames + taken + Len(frame_queue)
    /\ Len(frame_queue) <= QueueCap

\* C12 witness: all three kinds of frames exist at once
C12_Witness ==
    /\ dropped_frames >= 1
    /\ taken >= 1
    /\ Len(frame_queue) = QueueCap

\* C13: when the frame reads of an active session keep failing, the session
\* makes at most max_reconnect_attempts reconnect attempts and then stops:
\* from a failed read of a capture loop on, a read succeeds again or the
\* session becomes inactive
C13_FailingReadsStop ==
    /\ [](reconnect_attempts <= MaxReconnectAttempts)
    /\ (read_failed /\ is_active /\ capture_loops # EmptyBag)
          ~> (~read_failed \/ ~is_active)

\* the loop tasks of a bag that are alive and not cancelled
Alive(B) == BagCardinality([t \in {x \in DOMAIN B : x.pc # "cancelled"} |-> B[t]])

\* C14: at most one capture loop task and at most one processing loop task of
\* the session are alive
C14_OneLoopOfEachKind ==
    /\ Alive(capture_loops) <= 1
    /\ Alive(processing_loops) <= 1

\* C15: when a stop path releases the video capture, the capture loops, the
\* processing loops and every frame read in a reader thread have ended
C15_LoopsExitBeforeRelease ==
    [][(cap = "open" /\ cap' = "none" /\ reconnect_attempts' = reconnect_attempts) =>
          /\ capture_loops' = EmptyBag
          /\ processing_loops' = EmptyBag
          /\ stray_reads' = EmptyBag]_vars

\* the worker tasks, listed or not, that hold job j in the thread pool, and the
\* worker tasks that are alive
BusyWith(W, D, j) == CopiesIn([pc |-> "busy", job |-> j], W (+) D)
LiveWorkers(W, D) ==
    BagCardinality([t \in {x \in DOMAIN (W (+) D) : x.pc # "cancelled"} |-> (W (+) D)[t]])

\* C16: while the scheduler runs, a worker task that goes away while it holds
\* job j leaves as many live workers as before and j no longer PROCESSING
C16_AbortContained ==
    [][\A j \in DOMAIN jobs :
          (running /\ running' /\ BusyWith(workers', detached', j) < BusyWith(workers, detached, j))
             => /\ LiveWorkers(workers', detached') = LiveWorkers(workers, detached)
                /\ jobs'[j].status # PROCESSING]_vars

\* key k has an entry in some cache table
Cached(k, m, cf, ao, lt, ms) ==
    \/ k \in DOMAIN m
    \/ k \in cf
    \/ \E i \in DOMAIN ao : ao[i] = k
    \/ k \in lt
    \/ k \in DOMAIN ms

\* the step ends a get_model call of caller c with the load error raised
FailedLoad(c) ==
    /\ caller'[c] # caller[c]
    /\ caller'[c].pc = "idle"
    /\ caller'[c].handle = 0

\* C17: when the load of get_model(key) fails, no cache table holds an entry
\* for key afterwards, so that the next get_model(key) loads again
C17_FailedLoadLeavesNoEntry ==
    [][\A c \in Callers :
          FailedLoad(c) => ~Cached(caller'[c].key, models', configs', access_order',
                                   load_times', model_sizes')]_vars

\* C18: a key invalidate was called with stays out of every cache table until
\* the next get_model call for it, which is then a miss that loads again; and
\* invalidate of a key that is not cached changes no table and no statistic
C18_InvalidateThenMiss ==
    /\ [](\A k \in invalidated :
             ~Cached(k, models, configs, access_order, load_times, model_sizes))
    /\ [][\A k \in invalidated' \ invalidated :
             ~Cached(k, models, configs, access_order, load_times, model_sizes)
                => UNCHANGED <<models, configs, access_order, load_times,
                               model_sizes, cache_stats>>]_vars

C20_StopAgainChangesNothing ==
    [][last_call' = "stop_again" =>
          UNCHANGED <<running, workers, detached, jobs, queue, stats,
                      pool_shutdown, stop_pc>>]_vars

C20_Witness ==
    /\ last_call = "stop_again"
    /\ pool_shutdown
    /\ Len(jobs) > 0

\* the jobs the priority queue holds, and the registered jobs with status st
Queued == {queue[i].job : i \in DOMAIN queue}
WithStatus(st) == {j \in DOMAIN jobs : jobs[j].status = st}

\* C24: every job in the priority queue has status PENDING
C24_QueuedArePending ==
    \A j \in Queued : j \in DOMAIN jobs /\ jobs[j].status = PENDING

C24_Witness ==
    /\ Len(queue) >= 1
    /\ WithStatus(COMPLETED) # {}
    /\ WithStatus(PROCESSING) # {}

\* C25: every registered job with status PENDING is in the priority queue
C25_PendingAreQueued ==
    \A j \in WithStatus(PENDING) : j \in Queued

\* C26: total_jobs is the number of registered jobs, completed_jobs the number
\* of COMPLETED jobs, failed_jobs the number of FAILED jobs; get_queue_stats
\* reports the number of queued jobs and the number of PROCESSING jobs
C26_CountersAgree ==
    /\ stats.total_jobs = Len(jobs)
    /\ Len(jobs) = Cardinality(WithStatus(PENDING)) + Cardinality(WithStatus(PROCESSING))
                     + Cardinality(WithStatus(COMPLETED)) + Cardinality(WithStatus(FAILED))
    /\ stats.completed_jobs = Cardinality(WithStatus(COMPLETED))
    /\ stats.failed_jobs = Cardinality(WithStatus(FAILED))
    /\ get_queue_stats.total_jobs = Len(jobs)
    /\ get_queue_stats.completed_jobs = Cardinality(WithStatus(COMPLETED))
    /\ get_queue_stats.failed_jobs = Cardinality(WithStatus(FAILED))
    /\ get_queue_stats.queue_size = Cardinality(Queued)
    /\ get_queue_stats.active_jobs = Cardinality(WithStatus(PROCESSING))

C26_Witness ==
    /\ Len(jobs) = MaxJobs
    /\ stats.completed_jobs >= 1
    /\ stats.failed_jobs >= 1
    /\ Len(queue) >= 1

\* C27: a job's status moves PENDING -> PROCESSING -> COMPLETED or FAILED only
\* (one step of the event loop can take it through PROCESSING to FAILED, when
\* the thread pool refuses it); a job that left the queue never enters it
\* again and is in it once; started_at is set exactly when the job leaves
\* PENDING; completed_at is set only on a terminal job
C27_Lifecycle ==
    [][/\ Cardinality({queue'[i].job : i \in DOMAIN queue'}) = Len(queue')
       /\ \A j \in DOMAIN jobs :
             LET old == jobs[j]
                 new == jobs'[j]
             IN  /\ \/ new.status = old.status
                    \/ old.status = PENDING /\ new.status = PROCESSING
                    \/ old.status = PROCESSING /\ new.status \in {COMPLETED, FAILED}
                    \/ old.status = PENDING /\ new.status = FAILED /\ new.started_at
                 /\ (j \in {queue'[i].job : i \in DOMAIN queue'}) => (j \in Queued)
                 /\ new.started_at = (new.status # PENDING)
                 /\ (new.started_at # old.started_at) => old.status = PENDING
                 /\ new.completed_at => new.status \in {COMPLETED, FAILED}
                 /\ old.completed_at => new.completed_at]_vars

C27_Witness ==
    /\ \E j \in DOMAIN jobs : jobs[j].status = COMPLETED /\ jobs[j].completed_at
    /\ \E j \in DOMAIN jobs : jobs[j].status = FAILED /\ jobs[j].started_at
    /\ \E j \in DOMAIN jobs : jobs[j].status = PROCESSING /\ jobs[j].started_at
                                 /\ ~jobs[j].completed_at

\* the worker tasks, listed or not, that are in state t
TasksIn(W, D, t) == CopiesIn(t, W (+) D)

\* C28: a job's callback is invoked at most once and only when the job is
\* COMPLETED or FAILED; when a callback raises, the job's status and the
\* counters are as before and the worker task waits for the next job
C28_CallbackContained ==
    [][/\ \A j \in DOMAIN jobs' :
             /\ jobs'[j].callbacks <= 1
             /\ jobs'[j].callbacks > 0 => jobs'[j].status \in {COMPLETED, FAILED}
             /\ jobs'[j].callbacks > 0 => jobs'[j].callback
       /\ last_call' = "callback_raised" =>
             /\ UNCHANGED <<jobs, stats, queue>>
             /\ running => TasksIn(workers', detached', IdleTask)
                              = TasksIn(workers, detached, IdleTask) + 1]_vars

C28_Witness ==
    /\ last_call = "callback_raised"
    /\ running
    /\ queue # <<>>
    /\ \E j \in DOMAIN jobs : jobs[j].callbacks = 1 /\ jobs[j].status = COMPLETED

\* C29: the cache lock is not held while a model is loaded: while a caller is
\* in its load phase, another caller can begin the load of another missing
\* key, and a hit or an invalidate on another key can complete
C29_LoadOutsideLock ==
    \A c \in Callers :
        (caller[c].pc = "load" /\ n_ops < MaxCacheOps) =>
            /\ lock = 0
            /\ \A d \in Callers \ {c}, k \in Keys \ {caller[c].key} :
                  caller[d].pc = "idle" =>
                     /\ k \in DOMAIN models => ENABLED get_model_hit(d, k)
                     /\ (k \notin DOMAIN models /\ k \in OverlapKeys)
                           => ENABLED get_model_miss(d, k)
                     /\ ENABLED invalidate(k)

C29_Witness ==
    \E c, d \in Callers :
        /\ caller[c].pc = "load" /\ caller[d].pc = "load"
        /\ caller[c].key # caller[d].key
        /\ DOMAIN models # {}
        /\ invalidated # {}

\* the step is a _process_frame call, and it inserted an event
FrameCall == n_calls' # n_calls
EventInserted == Len(camera_events') = Len(camera_events) + 1
\* the try block of the latest _process_frame call raised
WriteFailed == last_frame.ended \in {"TypeError", "RuntimeError"}

\* C21: a _process_frame call inserts a motion_detected event if and only if
\* motion detection is enabled for the camera, a previous frame is held and the
\* motion pixel count is strictly greater than the camera's motion_threshold
C21_EventIffMotion ==
    [][FrameCall =>
          (EventInserted <=>
              /\ last_frame'.enabled
              /\ last_frame'.prev_frame
              /\ last_frame'.motion_pixels > last_frame'.motion_threshold)]_vars

\* C30: after a _process_frame call whose event write failed, a further frame
\* of that camera can be processed and can insert its own event
C30_NextFrameCanEmit ==
    \A cam \in DOMAIN m_sessions :
        (WriteFailed /\ last_frame.camera_id = cam /\ n_calls < MaxCalls) =>
            ENABLED (\E n \in MotionPixels, prev \in BOOLEAN, connected \in BOOLEAN :
                        process_frame(cam, n, prev, connected) /\ EventInserted)

\* C23: a websocket whose broadcast push failed is out of active_connections
\* once that broadcast() call has ended and receives no broadcast from the
\* failed one on, while each other websocket the call iterates over has
\* received the message when the call ends, and the call removes none of them
C23_FailedPushDisconnects ==
    [][/\ \A w \in WebSockets :
             failed'[w] > 0 =>
                 /\ received'[w] < failed'[w]
                 /\ w \in active_connections' =>
                        bc'.pc = "sending" /\ w \in bc'.disconnected
       /\ (bc.pc = "sending" /\ bc'.pc = "idle") =>
             \A w \in bc.copy \ bc.disconnected :
                 /\ received'[w] = bc.message
                 /\ w \in active_connections => w \in active_connections']_vars

\* a broadcast() call has ended in which the push to one websocket failed and
\* another websocket, still connected, received the message
C23_Witness ==
    /\ bc.pc = "idle"
    /\ bc.message > 0
    /\ \E w1, w2 \in WebSockets :
          /\ failed[w1] = bc.message
          /\ w1 \notin active_connections
          /\ received[w2] = bc.message
          /\ w2 \in active_connections

\* the step in which stop() returns
StopReturns == stop_pc = "gather" /\ stop_pc' = "idle"

C33_RestartDispatches ==
    [][\A j \in Dispatched : jobs'[j].status = PROCESSING]_vars

\* C32: at most one _metrics_loop task is alive at any instant
C32_OneMetricsLoop == Cardinality(AliveLoops) <= 1

\* C34: whenever no broadcast() is in progress, a websocket is in
\* active_connections if and only if it is in the set of some user of
\* user_connections, and no user maps to the empty set
C34_TablesAgree ==
    bc.pc = "idle" =>
    /\ \A w \in WebSockets :
          w \in active_connections <=> \E u \in DOMAIN user_connections : w \in user_connections[u]
    /\ \A u \in DOMAIN user_connections : user_connections[u] # {}

\* how often time t is in the list q
CountOf(q, t) == Cardinality({i \in 1..Len(q) : q[i] = t})

\* C35: a request the in-memory limiter lets pass is at most the max_requests-th
\* allowed one of its identifier within the last window_seconds; a rejected
\* request is not recorded; and retry_after of a rejected request is not
\* negative and is the time after which the oldest recorded request is out of
\* the window
C35_LocalLimiter ==
    [][DOMAIN rl_last' # {} =>
         LET i == rl_last'.identifier
             now == rl_last'.time
             before == IF i \in DOMAIN local_cache THEN local_cache[i].requests ELSE <<>>
             after == local_cache'[i].requests
         IN  /\ rl_last'.allowed =>
                   Cardinality({k \in 1..Len(allowed_log'[i]) :
                                   now - allowed_log'[i][k] < rl_last'.window})
                     <= rl_last'.max_requests
             /\ ~rl_last'.allowed =>
                   /\ \A t \in 0..MaxTime : CountOf(after, t) <= CountOf(before, t)
                   /\ i \in DOMAIN allowed_log
                   /\ Len(allowed_log'[i]) <= Len(allowed_log[i])
                   /\ rl_last'.retry_after >= 0
                   /\ after # <<>>
                   /\ (now + rl_last'.retry_after) - SeqMin(after) >= rl_last'.window
                   /\ rl_last'.retry_after > 0 =>
                         (now + rl_last'.retry_after - 1) - SeqMin(after) < rl_last'.window]_vars

\* a rejected request: the limit is reached within the window
C35_Witness ==
    /\ DOMAIN rl_last # {}
    /\ ~rl_last.allowed
    /\ rl_last.retry_after > 0
    /\ rl_last.time > 0

\* C36: as long as Redis answers and no two requests arrive at the same time,
\* the middleware with Redis and the one without make the same decision for
\* every request
C36_SameDecision ==
    (DOMAIN rl_last # {} /\ redis_failures = 0 /\ rl_distinct)
        => rd_last.allowed = rl_last.allowed

\* C37: after every call the camera ids with a session are the camera ids with
\* a capture task, and add_camera for an id that has a session returns False
\* and leaves the session and the task of that id as they were
C37_SessionsMatchTasks ==
    [][/\ DOMAIN m_sessions' = DOMAIN m_tasks'
       /\ (DOMAIN m_last' # {} /\ m_last'.cam \in DOMAIN m_sessions) =>
             /\ ~m_last'.returned
             /\ m_sessions'[m_last'.cam] = m_sessions[m_last'.cam]
             /\ m_tasks'[m_last'.cam] = m_tasks[m_last'.cam]]_vars

\* an add_camera call was refused for a camera that has a session, next to a
\* camera that has none
C37_Witness ==
    /\ DOMAIN m_last # {}
    /\ ~m_last.returned
    /\ m_last.cam \in DOMAIN m_sessions
    /\ DOMAIN m_tasks # Cameras

\* the sizes of the models of S, added up
RECURSIVE SizeOf(_)
SizeOf(S) ==
    IF S = {} THEN 0
    ELSE LET k == CHOOSE x \in S : TRUE
         IN  (IF k \in DOMAIN model_sizes THEN model_sizes[k] ELSE 0) + SizeOf(S \ {k})

\* C38: models, configs, access_order, load_times and model_sizes have the
\* same keys, and the byte total of get_stats is the sum of the sizes of the
\* cached models
C38_TablesShareKeys ==
    /\ configs = DOMAIN models
    /\ {access_order[i] : i \in DOMAIN access_order} = DOMAIN models
    /\ Len(access_order) = Cardinality(DOMAIN models)
    /\ load_times = DOMAIN models
    /\ DOMAIN model_sizes = DOMAIN models
    /\ GetStats.total_memory_mb = SizeOf(GetStats.model_list)

\* models were evicted to make room and one was invalidated during a load
C38_Witness ==
    /\ cache_stats.evictions > 0
    /\ Cardinality(DOMAIN models) >= 2
    /\ invalidated # {}

\* C39: an _ensure_cache_capacity call that has begun returns
C39_EnsureTerminates == (e_pc = "count") ~> (e_pc = "add")

====
